---- MODULE Spec2Model ----
(***************************************************************************)
(* A model of the race-result scraper (src/scraper/scraper.py):            *)
(*   - parse_time_to_seconds, the time parser, on strings modelled as      *)
(*     sequences of one-character strings;                                 *)
(*   - store_race_results and its get_or_create helpers on a relational    *)
(*     store modelled as sets of rows;                                     *)
(*   - the same store_race_results statement by statement, for two         *)
(*     ingestion runs that interleave;                                     *)
(*   - main's loop over the race descriptors.                              *)
(* Times are exact numbers of thousandths of a second (the code's floats). *)
(***************************************************************************)
EXTENDS Integers, Sequences, FiniteSets, TLC

VARIABLES
    time_src,   \* how the argument was written: its shape and its numeric fields
    time_str,   \* the argument of parse_time_to_seconds
    parsed,     \* what the call did: pending / a value / None / sys.exit
    db,         \* the committed rows of the store
    hist,       \* sequential store_race_results calls: the last two calls
    runs,       \* concurrent ingestion runs: each run's position and locals
    batch,      \* main: position in the descriptor list, status, log
    ext         \* one extractor or normaliser call: its input and what it returned

vars == <<time_src, time_str, parsed, db, hist, runs, batch, ext>>

(***************************************************************************)
(* Characters and strings                                                  *)
(***************************************************************************)
DigitChars == <<"0", "1", "2", "3", "4", "5", "6", "7", "8", "9">>

IsDigit(c) == \E i \in 1..Len(DigitChars) : DigitChars[i] = c

\* int() of one digit character
CharVal(c) == (CHOOSE i \in 1..Len(DigitChars) : DigitChars[i] = c) - 1

RECURSIVE int(_)
\* int() of a non-empty string of digits
int(s) ==
    IF Len(s) = 0 THEN 0
    ELSE int(SubSeq(s, 1, Len(s) - 1)) * 10 + CharVal(s[Len(s)])

RECURSIVE lstrip(_)
lstrip(s) == IF Len(s) > 0 /\ s[1] = " " THEN lstrip(Tail(s)) ELSE s

RECURSIVE rstrip(_)
rstrip(s) ==
    IF Len(s) > 0 /\ s[Len(s)] = " " THEN rstrip(SubSeq(s, 1, Len(s) - 1)) ELSE s

\* str.strip()
strip(s) == rstrip(lstrip(s))

\* F applied to the value of e, with e evaluated once
With(e, F(_)) == CHOOSE o \in {F(x) : x \in {e}} : TRUE

(***************************************************************************)
(* re.match on the five time patterns: a pattern is a sequence of tokens,  *)
(* a literal character or a greedy digit group \d{lo,hi}.  The match is    *)
(* anchored at the start of the string only, as re.match is.               *)
(***************************************************************************)
Lit(c) == [t |-> "c", c |-> c, lo |-> 0, hi |-> 0]
Dgt(lo, hi) == [t |-> "d", c |-> "", lo |-> lo, hi |-> hi]

NoMatch == [ok |-> FALSE, groups |-> <<>>, end |-> 0]

RECURSIVE ReMatchFrom(_, _, _, _)
RECURSIVE ReDigits(_, _, _, _, _)

\* tokens k.. of pat against s from position pos
ReMatchFrom(pat, k, s, pos) ==
    IF k > Len(pat) THEN [ok |-> TRUE, groups |-> <<>>, end |-> pos]
    ELSE IF pat[k].t = "c"
         THEN IF pos <= Len(s) /\ s[pos] = pat[k].c
              THEN ReMatchFrom(pat, k + 1, s, pos + 1)
              ELSE NoMatch
         ELSE ReDigits(pat, k, s, pos, pat[k].hi)

\* the digit group pat[k] taking n characters, then fewer (backtracking)
ReDigits(pat, k, s, pos, n) ==
    IF n < pat[k].lo THEN NoMatch
    ELSE IF pos + n - 1 <= Len(s) /\ \A j \in pos..(pos + n - 1) : IsDigit(s[j])
         THEN With(ReMatchFrom(pat, k + 1, s, pos + n),
                   LAMBDA r :
                     IF r.ok
                     THEN [ok |-> TRUE,
                           groups |-> <<SubSeq(s, pos, pos + n - 1)>> \o r.groups,
                           end |-> r.end]
                     ELSE ReDigits(pat, k, s, pos, n - 1))
         ELSE ReDigits(pat, k, s, pos, n - 1)

re_match(pat, s) == ReMatchFrom(pat, 1, s, 1)

\* the list `patterns` of parse_time_to_seconds, in its order
patterns ==
    << <<Dgt(1, 2), Lit(":"), Dgt(2, 2), Lit(":"), Dgt(2, 2), Lit("."), Dgt(1, 2)>>,
       <<Dgt(1, 2), Lit(":"), Dgt(2, 2), Lit(":"), Dgt(2, 2)>>,
       <<Dgt(1, 2), Lit(":"), Dgt(2, 2), Lit("."), Dgt(1, 2)>>,
       <<Dgt(1, 2), Lit(":"), Dgt(2, 2)>>,
       <<Dgt(3, 4), Lit("."), Dgt(1, 2)>> >>

(***************************************************************************)
(* parse_time_to_seconds                                                   *)
(***************************************************************************)
\* one second, in the unit of the model's time values
TicksPerSecond == 1000

\* the sanity threshold, in seconds
SanityCeiling == 3600

\* mutant of fractional_seconds: every fraction read as hundredths
fractional_seconds_hundredths(fractional) == int(fractional) * (TicksPerSecond \div 100)

\* float(int(fractional)) / 10.0 or / 100.0, by the number of digits
fractional_seconds(fractional) ==
    IF Len(fractional) = 1
    THEN int(fractional) * (TicksPerSecond \div 10)
    ELSE int(fractional) * (TicksPerSecond \div 100)

\* mutant of pattern_total: the three-field pattern read as hours, minutes, seconds
pattern_total_hours(i, g) ==
    CASE i = 1 -> (int(g[1]) * 3600 + int(g[2]) * 60 + int(g[3])) * TicksPerSecond
                  + fractional_seconds(g[4])
      [] i = 2 -> (int(g[1]) * 3600 + int(g[2]) * 60 + int(g[3])) * TicksPerSecond
      [] i = 3 -> (int(g[1]) * 60 + int(g[2])) * TicksPerSecond
                  + fractional_seconds(g[3])
      [] i = 4 -> (int(g[1]) * 60 + int(g[2])) * TicksPerSecond
      [] i = 5 -> int(g[1]) * TicksPerSecond + fractional_seconds(g[2])

\* `total` of the branch taken for pattern index i (1-based here) and groups g:
\* i = 1 is H:MM:SS.f, i = 2 is "MM:SS:ss (hundredths)", i = 3 is MM:SS.f,
\* i = 4 is MM:SS, i = 5 is seconds only
pattern_total(i, g) ==
    CASE i = 1 -> (int(g[1]) * 3600 + int(g[2]) * 60 + int(g[3])) * TicksPerSecond
                  + fractional_seconds(g[4])
      [] i = 2 -> (int(g[1]) * 60 + int(g[2])) * TicksPerSecond
                  + int(g[3]) * (TicksPerSecond \div 100)
      [] i = 3 -> (int(g[1]) * 60 + int(g[2])) * TicksPerSecond
                  + fractional_seconds(g[3])
      [] i = 4 -> (int(g[1]) * 60 + int(g[2])) * TicksPerSecond
      [] i = 5 -> int(g[1]) * TicksPerSecond + fractional_seconds(g[2])

ReturnValue(v) == [kind |-> "value", value |-> v, status |-> 0]
ReturnNone == [kind |-> "none", value |-> 0, status |-> 0]
SysExit(code, v) == [kind |-> "exit", value |-> v, status |-> code]

\* mutant of sanity_check: a total above the ceiling is clamped and returned
sanity_check_clamp(total) ==
    IF total > SanityCeiling * TicksPerSecond
    THEN ReturnValue(SanityCeiling * TicksPerSecond)
    ELSE ReturnValue(total)

\* the sanity check on a computed total: sys.exit(1) above the ceiling
sanity_check(total) ==
    IF total > SanityCeiling * TicksPerSecond
    THEN SysExit(1, total)
    ELSE ReturnValue(total)

\* the first pattern of the list that matches the stripped string decides
parse_time_to_seconds(str) ==
    With(strip(str),
         LAMBDA s :
           With({i \in 1..Len(patterns) : re_match(patterns[i], s).ok},
                LAMBDA hits :
                  IF hits = {} THEN ReturnNone
                  ELSE With(CHOOSE h \in hits : \A o \in hits : h <= o,
                            LAMBDA i :
                              With(re_match(patterns[i], s).groups,
                                   LAMBDA g : sanity_check(pattern_total(i, g))))))

(***************************************************************************)
(* The time strings the parser is run on: every supported shape written    *)
(* from numeric fields, with and without surrounding blanks and trailing   *)
(* characters, and strings of no supported shape.                          *)
(***************************************************************************)
\* the largest number of blanks written before and after a time string
MaxPad == 1

RECURSIVE Fmt(_, _)
\* n in decimal, zero-padded to w digits
Fmt(n, w) == IF w = 0 THEN <<>> ELSE Fmt(n \div 10, w - 1) \o <<DigitChars[(n % 10) + 1]>>

RECURSIVE Blanks(_)
Blanks(n) == IF n = 0 THEN <<>> ELSE <<" ">> \o Blanks(n - 1)

Suffixes == {<<>>, <<"a">>, <<"5">>}

Junk == {<<>>, <<"a", "b", "c">>, <<"1", "6", "4", "2">>, <<"1", "6", ".", "4", "2">>,
         <<":", "4", "2">>, <<"1", "6", ":", "4">>, <<"1", ":", "2", ":", "3">>,
         <<"1", "2", "3", "4", "5", ".", "0">>, <<"D", "N", "F">>}

LeadFields == [v : {0, 1}, w : {1}] \cup [v : {0, 1, 16, 59, 60, 61}, w : {2}]
FracFields == [v : {0, 4}, w : {1}] \cup [v : {0, 45, 50}, w : {2}]
SecsFields == [v : {100, 999}, w : {3}] \cup [v : {999, 1002, 3600, 3601}, w : {4}]

TimeSrc(shape, a, b, c, f, sfx, raw) ==
    [shape |-> shape, a |-> a.v, aw |-> a.w, b |-> b, c |-> c,
     f |-> f.v, fw |-> f.w, sfx |-> sfx, raw |-> raw]

NoField == [v |-> 0, w |-> 0]

TimeSources ==
    {TimeSrc("HMSF", a, b, c, f, x, <<>>) :
        a \in LeadFields, b \in {0, 2, 42, 99}, c \in {0, 3, 42}, f \in FracFields,
        x \in Suffixes}
    \cup {TimeSrc("HMS", a, b, c, NoField, x, <<>>) :
        a \in LeadFields, b \in {0, 2, 42, 99}, c \in {0, 3, 42}, x \in Suffixes}
    \cup {TimeSrc("MSF", a, b, 0, f, x, <<>>) :
        a \in LeadFields, b \in {0, 2, 42, 99}, f \in FracFields, x \in Suffixes}
    \cup {TimeSrc("MS", a, b, 0, NoField, x, <<>>) :
        a \in LeadFields, b \in {0, 2, 42, 99}, x \in Suffixes}
    \cup {TimeSrc("SF", a, 0, 0, f, x, <<>>) :
        a \in SecsFields, f \in FracFields, x \in Suffixes}
    \cup {TimeSrc("JUNK", NoField, 0, 0, NoField, <<>>, r) : r \in Junk}

\* the text of a source, without the blanks around it
TimeText(src) ==
    LET A == Fmt(src.a, src.aw)
        F == Fmt(src.f, src.fw)
    IN  CASE src.shape = "HMSF" ->
               A \o <<":">> \o Fmt(src.b, 2) \o <<":">> \o Fmt(src.c, 2) \o <<".">> \o F \o src.sfx
          [] src.shape = "HMS" ->
               A \o <<":">> \o Fmt(src.b, 2) \o <<":">> \o Fmt(src.c, 2) \o src.sfx
          [] src.shape = "MSF" -> A \o <<":">> \o Fmt(src.b, 2) \o <<".">> \o F \o src.sfx
          [] src.shape = "MS" -> A \o <<":">> \o Fmt(src.b, 2) \o src.sfx
          [] src.shape = "SF" -> A \o <<".">> \o F \o src.sfx
          [] OTHER -> src.raw

Pending == [kind |-> "pending", value |-> 0, status |-> 0]

(***************************************************************************)
(* Letter case                                                             *)
(***************************************************************************)
UpperChars == <<"A", "B", "C", "D", "E", "F", "G", "H", "I", "J", "K", "L", "M",
                "N", "O", "P", "Q", "R", "S", "T", "U", "V", "W", "X", "Y", "Z">>
LowerChars == <<"a", "b", "c", "d", "e", "f", "g", "h", "i", "j", "k", "l", "m",
                "n", "o", "p", "q", "r", "s", "t", "u", "v", "w", "x", "y", "z">>

\* the lower-case letter of each upper-case letter
LowerOf ==
    [c \in {UpperChars[k] : k \in 1..Len(UpperChars)} |->
        LowerChars[CHOOSE k \in 1..Len(UpperChars) : UpperChars[k] = c]]

lower_char(c) == IF c \in DOMAIN LowerOf THEN LowerOf[c] ELSE c

\* str.lower()
lower(s) == [i \in 1..Len(s) |-> lower_char(s[i])]

\* the upper-case letter of each lower-case letter
UpperOf ==
    [c \in {LowerChars[k] : k \in 1..Len(LowerChars)} |->
        UpperChars[CHOOSE k \in 1..Len(LowerChars) : LowerChars[k] = c]]

upper_char(c) == IF c \in DOMAIN UpperOf THEN UpperOf[c] ELSE c

\* str.capitalize()
capitalize(w) ==
    IF w = <<>> THEN <<>> ELSE <<upper_char(w[1])>> \o lower(Tail(w))

RECURSIVE split_from(_, _, _, _)
\* the words of s from position i on; cur is the word being read
split_from(s, i, cur, acc) ==
    IF i > Len(s) THEN (IF cur = <<>> THEN acc ELSE Append(acc, cur))
    ELSE IF s[i] = " "
         THEN split_from(s, i + 1, <<>>, IF cur = <<>> THEN acc ELSE Append(acc, cur))
         ELSE split_from(s, i + 1, Append(cur, s[i]), acc)

\* str.split(): the words between runs of blanks
split(s) == split_from(s, 1, <<>>, <<>>)

RECURSIVE join(_)
\* ' '.join(words)
join(words) ==
    IF words = <<>> THEN <<>>
    ELSE IF Len(words) = 1 THEN words[1]
    ELSE words[1] \o <<" ">> \o join(Tail(words))

\* str.endswith(suffix)
endswith(s, suffix) ==
    Len(s) >= Len(suffix) /\ SubSeq(s, Len(s) - Len(suffix) + 1, Len(s)) = suffix

(***************************************************************************)
(* normalize_name and normalize_school_name                                *)
(***************************************************************************)
normalize_name(name) ==
    join([i \in 1..Len(split(name)) |-> capitalize(split(name)[i])])

sc_fort_collins == <<"F", "o", "r", "t", " ", "C", "o", "l", "l", "i", "n", "s">>
sc_fossil_ridge == <<"F", "o", "s", "s", "i", "l", " ", "R", "i", "d", "g", "e">>
sc_rocky_mountain ==
    <<"R", "o", "c", "k", "y", " ", "M", "o", "u", "n", "t", "a", "i", "n">>
sc_hs == <<" ", "H", "S">>
sc_high_school == <<" ", "H", "i", "g", "h", " ", "S", "c", "h", "o", "o", "l">>
sc_high_sc == <<" ", "H", "i", "g", "h", " ", "S", "c">>
sc_fchs == <<"F", "C", "H", "S">>

\* school_mappings, as pairs of key and value
school_mappings ==
    {<<sc_fort_collins, sc_fort_collins \o sc_high_school>>,
     <<sc_fort_collins \o sc_hs, sc_fort_collins \o sc_high_school>>,
     <<sc_fort_collins \o sc_high_sc, sc_fort_collins \o sc_high_school>>,
     <<sc_fchs, sc_fort_collins \o sc_high_school>>,
     <<sc_fossil_ridge \o sc_hs, sc_fossil_ridge \o sc_high_school>>,
     <<sc_fossil_ridge, sc_fossil_ridge \o sc_high_school>>,
     <<sc_rocky_mountain \o sc_hs, sc_rocky_mountain \o sc_high_school>>,
     <<sc_rocky_mountain, sc_rocky_mountain \o sc_high_school>>}

normalize_school_name(school_in) ==
    LET school == strip(school_in)
        hit == {m \in school_mappings : m[1] = school}
    IN  IF hit # {} THEN (CHOOSE m \in hit : TRUE)[2]
        ELSE IF endswith(school, sc_hs) /\ ~endswith(school, sc_high_school)
             THEN strip(SubSeq(school, 1, Len(school) - 3)) \o sc_high_school
             ELSE school

(***************************************************************************)
(* map_gender_for_db                                                       *)
(***************************************************************************)
g_boys == <<"b", "o", "y", "s">>
g_girls == <<"g", "i", "r", "l", "s">>
g_male == <<"m", "a", "l", "e">>
g_female == <<"f", "e", "m", "a", "l", "e">>
g_mixed == <<"m", "i", "x", "e", "d">>

\* gender_map.get(config_gender.lower(), config_gender.lower())
map_gender_for_db(config_gender) ==
    LET g == lower(config_gender)
    IN  CASE g = g_boys -> g_male
          [] g = g_girls -> g_female
          [] g = g_mixed -> g_mixed
          [] g = g_male -> g_male
          [] g = g_female -> g_female
          [] OTHER -> g

(***************************************************************************)
(* The store: committed rows, each table a set of rows; ids are drawn from *)
(* one serial counter per table.                                           *)
(***************************************************************************)
EmptyDb ==
    [venues |-> {}, meets |-> {}, races |-> {}, athletes |-> {}, results |-> {},
     seq |-> [venues |-> 0, meets |-> 0, races |-> 0, athletes |-> 0, results |-> 0]]

\* INSERT INTO table ... RETURNING id, the id already drawn into the row
InsertRow(d, table, row) ==
    [d EXCEPT ![table] = @ \cup {row}, !.seq[table] = @ + 1]

\* fetchone() on the rows a SELECT found
FetchOne(rows) == CHOOSE r \in rows : \A o \in rows : r.id <= o.id

\* mutant of get_or_create_venue: the venue is inserted without the SELECT
create_venue(d, venue_name) ==
    [db |-> InsertRow(d, "venues", [id |-> d.seq.venues + 1, name |-> venue_name]),
     id |-> d.seq.venues + 1]

\* get_or_create_venue: SELECT id FROM venues WHERE name, else INSERT
get_or_create_venue(d, venue_name) ==
    LET found == {r \in d.venues : r.name = venue_name}
        id == d.seq.venues + 1
    IN  IF found # {}
        THEN [db |-> d, id |-> FetchOne(found).id]
        ELSE [db |-> InsertRow(d, "venues", [id |-> id, name |-> venue_name]),
              id |-> id]

get_or_create_athlete(d, athlete) ==
    LET found == {r \in d.athletes :
                     /\ r.first_name = athlete.first_name
                     /\ r.last_name = athlete.last_name
                     /\ r.gender = athlete.gender
                     /\ r.school = athlete.school}
        id == d.seq.athletes + 1
    IN  IF found # {}
        THEN [db |-> d, id |-> FetchOne(found).id]
        ELSE [db |-> InsertRow(d, "athletes",
                        [id |-> id,
                         first_name |-> athlete.first_name,
                         last_name |-> athlete.last_name,
                         gender |-> athlete.gender,
                         school |-> athlete.school,
                         graduation_year |-> athlete.graduation_year]),
              id |-> id]

(***************************************************************************)
(* store_race_results, one whole call                                      *)
(***************************************************************************)
\* round(x, 2) on a time in thousandths.  A value that ends in exactly 5
\* thousandths is rounded by the code as its nearest double falls; the model
\* rounds it up, and the times it is run on avoid that case.
round2(t) == ((t + 5) \div 10) * 10

\* mutant of existing_key: the stored names are compared as stored
existing_key_raw(row, athlete) ==
    <<athlete.first_name, athlete.last_name, athlete.school,
      round2(row.time_seconds), row.place>>

\* the key of a stored result joined with its athlete
existing_key(row, athlete) ==
    <<lower(strip(athlete.first_name)), lower(strip(athlete.last_name)),
      lower(strip(athlete.school)), round2(row.time_seconds), row.place>>

\* mutant of result_key: the time is compared without rounding
result_key_unrounded(result) ==
    <<lower(strip(result.athlete.first_name)), lower(strip(result.athlete.last_name)),
      lower(strip(result.athlete.school)), result.time_seconds, result.place>>

\* the key of a newly extracted result
result_key(result) ==
    <<lower(strip(result.athlete.first_name)), lower(strip(result.athlete.last_name)),
      lower(strip(result.athlete.school)), round2(result.time_seconds), result.place>>

\* SELECT ... FROM results res JOIN athletes a ... WHERE res.race_id = :race_id,
\* each row turned into its key
existing_set_of(d, race_id) ==
    {existing_key(row, CHOOSE a \in d.athletes : a.id = row.athlete_id) :
        row \in {r \in d.results : r.race_id = race_id}}

\* mutant of is_new_result: every record counts as new
is_new_result_always(result, existing_set) == TRUE

\* `if result_key not in existing_set`
is_new_result(result, existing_set) == result_key(result) \notin existing_set

ResultRow(id, race_id, athlete_id, result) ==
    [id |-> id, race_id |-> race_id, athlete_id |-> athlete_id,
     time_seconds |-> result.time_seconds, place |-> result.place,
     varsity_points |-> result.varsity_points]

RECURSIVE collect_new_results(_, _, _, _, _, _)
\* the loop over `results` of the existing-race branch: an athlete is looked
\* up or created for each record that is new; acc is new_results
collect_new_results(d, results, i, race_id, existing_set, acc) ==
    IF i > Len(results) THEN [db |-> d, new_results |-> acc]
    ELSE IF is_new_result(results[i], existing_set)
         THEN With(get_or_create_athlete(d, results[i].athlete),
                   LAMBDA a :
                     collect_new_results(a.db, results, i + 1, race_id, existing_set,
                         Append(acc, [idx |-> i, athlete_id |-> a.id,
                                      result |-> results[i]])))
         ELSE collect_new_results(d, results, i + 1, race_id, existing_set, acc)

RECURSIVE bulk_insert(_, _, _, _, _)
\* the bulk INSERT INTO results of new_results; acc is the rows written
bulk_insert(d, race_id, new_results, k, acc) ==
    IF k > Len(new_results) THEN [db |-> d, inserted |-> acc]
    ELSE With(ResultRow(d.seq.results + 1, race_id, new_results[k].athlete_id,
                        new_results[k].result),
              LAMBDA row :
                With(InsertRow(d, "results", row),
                     LAMBDA d2 :
                       bulk_insert(d2, race_id, new_results, k + 1,
                           Append(acc, [idx |-> new_results[k].idx, row |-> row]))))

RECURSIVE store_all_results(_, _, _, _, _)
\* the loop over `results` of the new-race branch: every record is stored
store_all_results(d, results, i, race_id, acc) ==
    IF i > Len(results) THEN [db |-> d, inserted |-> acc]
    ELSE With(get_or_create_athlete(d, results[i].athlete),
              LAMBDA a :
                With(ResultRow(a.db.seq.results + 1, race_id, a.id, results[i]),
                     LAMBDA row :
                       With(InsertRow(a.db, "results", row),
                            LAMBDA d2 :
                              store_all_results(d2, results, i + 1, race_id,
                                  Append(acc, [idx |-> i, row |-> row])))))

\* SELECT id FROM races WHERE meet_id, name, distance, race_class, gender
find_race(d, meet_id, race_config) ==
    {r \in d.races :
        /\ r.meet_id = meet_id
        /\ r.name = race_config.race_name
        /\ r.distance = race_config.distance
        /\ r.race_class = race_config.race_class
        /\ r.gender = map_gender_for_db(race_config.gender)}

\* SELECT id FROM meets WHERE name, meet_date, venue_id
find_meet(d, venue_id, race_config) ==
    {m \in d.meets :
        /\ m.name = race_config.meet_name
        /\ m.meet_date = race_config.date
        /\ m.venue_id = venue_id}

MeetRow(id, venue_id, race_config) ==
    [id |-> id, name |-> race_config.meet_name, meet_date |-> race_config.date,
     venue_id |-> venue_id, season |-> race_config.season,
     milesplit_url |-> race_config.url]

RaceRow(id, meet_id, race_config) ==
    [id |-> id, meet_id |-> meet_id, name |-> race_config.race_name,
     distance |-> race_config.distance, race_class |-> race_config.race_class,
     gender |-> map_gender_for_db(race_config.gender)]

\* "Check if meet already exists, if not create it"
get_or_create_meet(d, venue_id, race_config) ==
    LET found == find_meet(d, venue_id, race_config)
        id == d.seq.meets + 1
    IN  IF found # {}
        THEN [db |-> d, id |-> FetchOne(found).id]
        ELSE [db |-> InsertRow(d, "meets", MeetRow(id, venue_id, race_config)),
              id |-> id]

\* the existing-race branch: only the records whose key is not stored are written
store_new_results(d, race_id, results) ==
    With(existing_set_of(d, race_id),
         LAMBDA existing_set :
           With(collect_new_results(d, results, 1, race_id, existing_set, <<>>),
                LAMBDA c :
                  With(bulk_insert(c.db, race_id, c.new_results, 1, <<>>),
                       LAMBDA b :
                         [db |-> b.db, inserted |-> b.inserted,
                          race_existed |-> TRUE, race_id |-> race_id])))

\* the new-race branch: the race is created and every record is written
store_new_race(d, meet_id, race_config, results) ==
    With(d.seq.races + 1,
         LAMBDA race_id :
           With(InsertRow(d, "races", RaceRow(race_id, meet_id, race_config)),
                LAMBDA d2 :
                  With(store_all_results(d2, results, 1, race_id, <<>>),
                       LAMBDA b :
                         [db |-> b.db, inserted |-> b.inserted,
                          race_existed |-> FALSE, race_id |-> race_id])))

\* store_race_results(race_config, results) run to its commit on store d:
\* the store after it, the result rows it wrote (with the index of the record
\* each came from), and whether the race was already stored
store_race_results(d, race_config, results) ==
    IF results = <<>>
    THEN [db |-> d, inserted |-> <<>>, race_existed |-> FALSE, race_id |-> 0]
    ELSE With(get_or_create_venue(d, race_config.venue),
              LAMBDA v :
                With(get_or_create_meet(v.db, v.id, race_config),
                     LAMBDA m :
                       With(find_race(m.db, m.id, race_config),
                            LAMBDA races :
                              IF races # {}
                              THEN store_new_results(m.db, FetchOne(races).id, results)
                              ELSE store_new_race(m.db, m.id, race_config, results))))

(***************************************************************************)
(* The time parser run on one string.                                      *)
(***************************************************************************)
TimeInit ==
    /\ time_src \in TimeSources
    /\ \E l \in 0..MaxPad, r \in 0..MaxPad :
          time_str = Blanks(l) \o TimeText(time_src) \o Blanks(r)
    /\ parsed = Pending
    /\ ext = <<>>
    /\ db = EmptyDb
    /\ hist = <<>>
    /\ runs = <<>>
    /\ batch = <<>>

\* one call of parse_time_to_seconds
ParseTime ==
    /\ parsed.kind = "pending"
    /\ parsed' = parse_time_to_seconds(time_str)
    /\ UNCHANGED <<time_src, time_str, db, hist, runs, batch, ext>>

TimeNext == ParseTime

SpecTime == TimeInit /\ [][TimeNext]_vars

(***************************************************************************)
(* Sequential ingestion: store_race_results called again and again, each   *)
(* call run to its end before the next.  hist keeps the last two calls.    *)
(***************************************************************************)
\* the number of store_race_results calls of one behaviour
MaxCalls == 2
\* the largest number of records in one extracted list
MaxRecs == 2

n_al == <<"A", "l">>
n_al_v == <<"a", "l", " ">>
n_doe == <<"D", "o", "e">>
n_doe_v == <<"D", "O", "E">>
s_fc == <<"F", "C">>
s_fc_v == <<"f", "c">>

Rec(first, last, school, t, place) ==
    [athlete |-> [first_name |-> first, last_name |-> last, gender |-> g_male,
                  school |-> school, graduation_year |-> 0],
     time_seconds |-> t, place |-> place, varsity_points |-> 0]

\* the extracted records: one athlete written two ways with times 1002.451
\* and 1002.454 (one key), and the same athlete 5 ms slower (the next hundredth)
rec_al == Rec(n_al, n_doe, s_fc, 1002451, 1)
rec_al_v == Rec(n_al_v, n_doe_v, s_fc_v, 1002454, 1)
rec_al_slow == Rec(n_al, n_doe, s_fc, 1002456, 1)

RecordPool == {rec_al, rec_al_v, rec_al_slow}

\* the lists an extractor returns: up to MaxRecs records, no row twice
RecordLists ==
    {l \in UNION {[1..n -> RecordPool] : n \in 0..MaxRecs} :
        \A i, j \in 1..Len(l) : l[i] = l[j] => i = j}

RaceCfg(race_name, gender, url, file, algorithm) ==
    [meet_name |-> "Invite", race_name |-> race_name, distance |-> "5K",
     race_class |-> "varsity", gender |-> gender, venue |-> "Park",
     date |-> "2025-09-06", season |-> "2025", url |-> url, file |-> file,
     algorithm |-> algorithm, results_title |-> "", race_number |-> 0]

\* two races of one meet
StoreConfigs ==
    {RaceCfg("Boys Varsity", g_boys, "", "pages/meet.html", "raw_combined"),
     RaceCfg("Girls Varsity", <<"G", "i", "r", "l", "s">>, "", "pages/meet.html",
             "raw_combined")}

NoHist == [n |-> 0, calls |-> <<>>]

StoreInit ==
    /\ db = EmptyDb
    /\ hist = NoHist
    /\ time_src = TimeSrc("JUNK", NoField, 0, 0, NoField, <<>>, <<>>)
    /\ time_str = <<>>
    /\ parsed = Pending
    /\ ext = <<>>
    /\ runs = <<>>
    /\ batch = <<>>

\* one call store_race_results(race_config, results), from entry to return
StoreRaceResults(race_config, results) ==
    /\ hist.n < MaxCalls
    /\ \E r \in {store_race_results(db, race_config, results)} :
       LET call == [rc |-> race_config, results |-> results,
                    race_existed |-> r.race_existed, race_id |-> r.race_id,
                    inserted |-> r.inserted, before |-> db]
       IN  /\ db' = r.db
           /\ hist' = [n |-> hist.n + 1,
                       calls |-> IF Len(hist.calls) = 0 THEN <<call>>
                                 ELSE <<hist.calls[Len(hist.calls)], call>>]
    /\ UNCHANGED <<time_src, time_str, parsed, runs, batch, ext>>

StoreNext == \E rc \in StoreConfigs, results \in RecordLists : StoreRaceResults(rc, results)

SpecStore == StoreInit /\ [][StoreNext]_vars

(***************************************************************************)
(* Properties of sequential ingestion (checked under SpecStore).           *)
(***************************************************************************)
Calls == Len(hist.calls)
LastCall == hist.calls[Calls]
PrevCall == hist.calls[Calls - 1]

\* a name or school trimmed and lower-cased
Normal(s) == lower(strip(s))

\* a time rounded to hundredths of a second, in hundredths
Hundredths(t) == (t + 5) \div 10

KeyOfRecord(r) ==
    <<Normal(r.athlete.first_name), Normal(r.athlete.last_name),
      Normal(r.athlete.school), Hundredths(r.time_seconds), r.place>>

AthleteOf(d, row) == CHOOSE a \in d.athletes : a.id = row.athlete_id

KeyOfRow(d, row) ==
    <<Normal(AthleteOf(d, row).first_name), Normal(AthleteOf(d, row).last_name),
      Normal(AthleteOf(d, row).school), Hundredths(row.time_seconds), row.place>>

RaceRows(d, race_id) == {row \in d.results : row.race_id = race_id}

\* the result row written for record i of a call is that record
RowIsRecord(d, ins, results) ==
    /\ ins.row.time_seconds = results[ins.idx].time_seconds
    /\ ins.row.place = results[ins.idx].place
    /\ AthleteOf(d, ins.row).first_name = results[ins.idx].athlete.first_name
    /\ AthleteOf(d, ins.row).last_name = results[ins.idx].athlete.last_name
    /\ AthleteOf(d, ins.row).school = results[ins.idx].athlete.school

\* the second of two calls repeats the first, and the first created the race
RepeatedFirstIngestion ==
    /\ Calls = 2
    /\ ~PrevCall.race_existed
    /\ PrevCall.results # <<>>
    /\ LastCall.rc = PrevCall.rc
    /\ LastCall.results = PrevCall.results

\* C1: a first call for a race not yet stored writes every record of a
\* non-empty list; the same call made again writes no result row, and the
\* stored results are the same after the second call as after the first.
C1_IdempotentIngestion ==
    RepeatedFirstIngestion =>
        /\ Len(PrevCall.inserted) = Len(PrevCall.results)
        /\ \A i \in 1..Len(PrevCall.inserted) :
              /\ PrevCall.inserted[i].idx = i
              /\ RowIsRecord(db, PrevCall.inserted[i], PrevCall.results)
        /\ LastCall.race_existed
        /\ LastCall.inserted = <<>>
        /\ db.results = LastCall.before.results

C1_Witness ==
    /\ RepeatedFirstIngestion
    /\ Len(LastCall.results) = 2
    /\ LastCall.results[1] # LastCall.results[2]
    /\ Cardinality(db.results) = 2

\* C2: for a race already stored, the result rows a call writes are exactly
\* its records whose key is not a key of the results stored for the race
\* before the call; rows stored before are neither changed nor deleted.
C2_InsertOnlyDelta ==
    (Calls >= 1 /\ LastCall.race_existed) =>
        LET stored == {KeyOfRow(LastCall.before, row) :
                          row \in RaceRows(LastCall.before, LastCall.race_id)}
            fresh == {i \in 1..Len(LastCall.results) :
                          KeyOfRecord(LastCall.results[i]) \notin stored}
            ins == LastCall.inserted
        IN  /\ {ins[k].idx : k \in 1..Len(ins)} = fresh
            /\ Len(ins) = Cardinality(fresh)
            /\ \A k \in 1..Len(ins) :
                  /\ RowIsRecord(db, ins[k], LastCall.results)
                  /\ ins[k].row.race_id = LastCall.race_id
            /\ LastCall.before.results \subseteq db.results
            /\ db.results \ LastCall.before.results = {ins[k].row : k \in 1..Len(ins)}

C2_Witness ==
    /\ Calls >= 1
    /\ LastCall.race_existed
    /\ Len(LastCall.results) = 2
    /\ Len(LastCall.inserted) = 1
    /\ LastCall.inserted[1].idx = 2
    /\ RaceRows(LastCall.before, LastCall.race_id) # {}

\* record i of the last call and a stored row of its race agree in place, in
\* the trimmed lower-cased names and school, and in the time to hundredths
SameResult(i, row) ==
    LET r == LastCall.results[i]
        a == AthleteOf(LastCall.before, row)
    IN  /\ row.place = r.place
        /\ Normal(a.first_name) = Normal(r.athlete.first_name)
        /\ Normal(a.last_name) = Normal(r.athlete.last_name)
        /\ Normal(a.school) = Normal(r.athlete.school)
        /\ Hundredths(row.time_seconds) = Hundredths(r.time_seconds)

\* C3: a record that agrees with a stored result of the race in place, in
\* names and school up to blanks and letter case, and in time up to the
\* hundredths digit, is not written again.
C3_DedupKeyEquivalence ==
    (Calls >= 1 /\ LastCall.race_existed) =>
        \A i \in 1..Len(LastCall.results) :
            (\E row \in RaceRows(LastCall.before, LastCall.race_id) : SameResult(i, row))
                => \A k \in 1..Len(LastCall.inserted) : LastCall.inserted[k].idx # i

C3_Witness ==
    /\ Calls >= 1
    /\ LastCall.race_existed
    /\ \E i \in 1..Len(LastCall.results) :
          /\ \E row \in RaceRows(LastCall.before, LastCall.race_id) :
                /\ SameResult(i, row)
                /\ row.time_seconds # LastCall.results[i].time_seconds
                /\ AthleteOf(LastCall.before, row).last_name
                       # LastCall.results[i].athlete.last_name
          /\ \A k \in 1..Len(LastCall.inserted) : LastCall.inserted[k].idx # i

VenueKey(v) == <<v.name>>
MeetKey(m) == <<m.name, m.meet_date, m.venue_id>>
RaceKey(r) == <<r.meet_id, r.name, r.distance, r.race_class, r.gender>>
AthleteKey(a) == <<a.first_name, a.last_name, a.gender, a.school>>

\* the natural key of the venue, meet and race of a call, given the ids the
\* store holds for the venue and the meet
CallVenueKey(c) == <<c.rc.venue>>
CallMeetKeys(c, d) ==
    {<<c.rc.meet_name, c.rc.date, v.id>> : v \in {w \in d.venues : w.name = c.rc.venue}}
CallRaceKeys(c, d) ==
    {<<m.id, c.rc.race_name, c.rc.distance, c.rc.race_class,
       map_gender_for_db(c.rc.gender)>> :
        m \in {x \in d.meets : MeetKey(x) \in CallMeetKeys(c, d)}}

\* C20: after store_race_results calls made one after another the store has
\* at most one venue per name, one meet per (name, date, venue), one race per
\* (meet, name, distance, class, mapped gender) and one athlete per (first
\* name, last name, gender, school); a call whose venue, meet, race or
\* athlete is already stored uses the stored row and adds none of that kind
\* (a call with no records resolves nothing and returns no id).
C20_NaturalKeyUniqueness ==
    /\ \A a, b \in db.venues : VenueKey(a) = VenueKey(b) => a = b
    /\ \A a, b \in db.meets : MeetKey(a) = MeetKey(b) => a = b
    /\ \A a, b \in db.races : RaceKey(a) = RaceKey(b) => a = b
    /\ \A a, b \in db.athletes : AthleteKey(a) = AthleteKey(b) => a = b
    /\ Calls >= 1 =>
          LET c == LastCall
          IN  /\ (\E v \in c.before.venues : VenueKey(v) = CallVenueKey(c))
                    => db.venues = c.before.venues
              /\ (\E m \in c.before.meets : MeetKey(m) \in CallMeetKeys(c, c.before))
                    => db.meets = c.before.meets
              /\ (/\ c.results # <<>>
                  /\ \E r \in c.before.races : RaceKey(r) \in CallRaceKeys(c, c.before))
                    => /\ db.races = c.before.races
                       /\ c.race_existed
                       /\ \E r \in c.before.races :
                             r.id = c.race_id /\ RaceKey(r) \in CallRaceKeys(c, c.before)
              /\ \A a \in db.athletes \ c.before.athletes :
                    \A b \in c.before.athletes : AthleteKey(a) # AthleteKey(b)
              /\ \A j \in 1..Len(c.inserted) :
                    \E a \in db.athletes :
                       /\ a.id = c.inserted[j].row.athlete_id
                       /\ AthleteKey(a) = AthleteKey(c.results[c.inserted[j].idx].athlete)

\* a second call for another race of the stored meet, with a stored athlete
\* and a new one: venue and meet are found, the race and one athlete are new
C20_Witness ==
    /\ Calls = 2
    /\ PrevCall.rc # LastCall.rc
    /\ LastCall.before.venues # {} /\ db.venues = LastCall.before.venues
    /\ LastCall.before.meets # {} /\ db.meets = LastCall.before.meets
    /\ Cardinality(db.races) = 2
    /\ Cardinality(LastCall.before.athletes) = 1
    /\ Cardinality(db.athletes) = 2
    /\ \E j \in 1..Len(LastCall.inserted) :
          \E a \in LastCall.before.athletes :
             a.id = LastCall.inserted[j].row.athlete_id

\* C26: after store_race_results calls made one after another the stored
\* results of a race never hold two rows with the same key (lower-cased first
\* name, last name and school, time in hundredths, place).
C26_NoDuplicateStoredResults ==
    \A r1, r2 \in db.results :
        (r1.race_id = r2.race_id /\ KeyOfRow(db, r1) = KeyOfRow(db, r2)) => r1 = r2

(***************************************************************************)
(* Properties of the time parser (checked under SpecTime).                 *)
(***************************************************************************)
ParseDone == parsed.kind # "pending"

\* the whole trimmed string is one of the supported shapes
ExactShape == time_src.shape # "JUNK" /\ time_src.sfx = <<>>

\* the trimmed string is of no supported shape (a trailing "5" after a
\* one-digit fraction only makes the fraction two digits long)
NotAShape ==
    \/ time_src.shape = "JUNK"
    \/ time_src.sfx = <<"a">>
    \/ time_src.sfx = <<"5">> /\ time_src.fw # 1

\* the fraction a source was written with: one digit tenths, two hundredths
SrcFraction ==
    IF time_src.fw = 1 THEN time_src.f * 100
    ELSE IF time_src.fw = 2 THEN time_src.f * 10 ELSE 0

\* minutes * 60 + seconds + fraction, for the shapes MM:SS and MM:SS.f(f)
SrcMinSec == (time_src.a * 60 + time_src.b) * 1000 + SrcFraction

\* seconds + fraction, for the seconds-only shape
SrcSecs == time_src.a * 1000 + SrcFraction

\* hours * 3600 + minutes * 60 + seconds + fraction
SrcHourMinSec == (time_src.a * 3600 + time_src.b * 60 + time_src.c) * 1000 + SrcFraction

\* the three fields read as minutes, seconds and hundredths
SrcMinSecHundredths == (time_src.a * 60 + time_src.b) * 1000 + time_src.c * 10

\* the value the code computes for a string that is exactly of a supported shape
SrcValue ==
    CASE time_src.shape = "HMSF" -> SrcHourMinSec
      [] time_src.shape = "HMS" -> SrcMinSecHundredths
      [] time_src.shape \in {"MSF", "MS"} -> SrcMinSec
      [] time_src.shape = "SF" -> SrcSecs
      [] OTHER -> 0

CeilingTicks == 3600 * 1000

\* C5: a string of a supported shape whose computed value is above 3600 s
\* makes the process exit with a non-zero status; a value of 3600 s or less
\* is returned unchanged; and no returned value ever exceeds 3600 s.
C5_SanityCeiling ==
    /\ parsed.kind = "value" => parsed.value <= CeilingTicks
    /\ (ParseDone /\ ExactShape) =>
          IF SrcValue > CeilingTicks
          THEN parsed.kind = "exit" /\ parsed.status # 0
          ELSE parsed.kind = "value" /\ parsed.value = SrcValue

C5_Witness ==
    ParseDone /\ ExactShape /\ time_src.shape = "MS" /\ SrcValue > CeilingTicks
    /\ parsed.kind = "exit"

\* C6: a string exactly of the shape MM:SS, MM:SS.f, MM:SS.ff, SSS(S).f or
\* SSS(S).ff whose value is at most 3600 s parses to minutes * 60 + seconds
\* plus the fraction, one digit counting tenths and two digits hundredths.
C6_MinSecValue ==
    (ParseDone /\ ExactShape /\ time_src.shape \in {"MSF", "MS", "SF"}) =>
        LET v == IF time_src.shape = "SF" THEN SrcSecs ELSE SrcMinSec
        IN  v <= CeilingTicks => (parsed.kind = "value" /\ parsed.value = v)

C6_Witness ==
    ParseDone /\ ExactShape /\ time_src.shape = "MSF" /\ time_src.fw = 1
    /\ time_src.f = 4 /\ time_src.a = 16 /\ time_src.b = 42
    /\ parsed.kind = "value" /\ parsed.value = 1002400

\* C7 as stated: a string of the shape H:MM:SS computes
\* hours * 3600 + minutes * 60 + seconds before the ceiling is applied.
C7_HoursMinutesSeconds ==
    (ParseDone /\ ExactShape /\ time_src.shape = "HMS") => parsed.value = SrcHourMinSec

\* C7 as amended: a string of the shape N:NN:NN computes
\* first * 60 + second + third / 100 (minutes, seconds, hundredths), and the
\* ceiling is applied to that value.
C7_MinutesSecondsHundredths ==
    (ParseDone /\ ExactShape /\ time_src.shape = "HMS") =>
        /\ parsed.value = SrcMinSecHundredths
        /\ parsed.kind = IF SrcMinSecHundredths > CeilingTicks THEN "exit" ELSE "value"

C7_Witness ==
    ParseDone /\ ExactShape /\ time_src.shape = "HMS"
    /\ time_src.a = 1 /\ time_src.b = 2 /\ time_src.c = 3
    /\ parsed.kind = "value" /\ parsed.value = 62030

\* C8: a string of no supported shape parses to None and never ends the
\* process; the process is ended only for a computed value above 3600 s.
C8_UnparseableIsNone ==
    /\ (ParseDone /\ NotAShape) => parsed.kind = "none"
    /\ parsed.kind = "exit" => parsed.value > CeilingTicks

\* C28: the time parser returns a value only when the whole trimmed string is
\* of a supported shape; a string with extra characters after a supported
\* shape ("16:42.455", "16:42a") is a parse failure, never the value of its
\* prefix.
C28_WholeStringMatch ==
    parsed.kind = "value" => ~NotAShape


(***************************************************************************)
(* Concurrent ingestion: two runs of the program, each inside one call of  *)
(* store_race_results for the same race, interleaved statement by          *)
(* statement.  Each run works on its own connection: the rows it writes to *)
(* meets, races and results are seen by the other run only from its        *)
(* conn.commit() on; get_or_create_venue and get_or_create_athlete open a  *)
(* connection of their own and commit at once.  No statement of the call   *)
(* takes a lock, and no table is given a uniqueness rule by the code.      *)
(***************************************************************************)
Runs == {"run1", "run2"}

ConcConfig == RaceCfg("Boys Varsity", g_boys, "", "pages/meet.html", "raw_combined")

\* the lists of the two runs; no list holds one key twice
ConcLists == {<<>>, <<rec_al>>, <<rec_al_v>>, <<rec_al_slow, rec_al>>}

\* the store before the runs: empty, or left by an earlier run of the race
PriorStores ==
    {EmptyDb,
     store_race_results(EmptyDb, ConcConfig, <<rec_al_slow>>).db,
     store_race_results(EmptyDb, ConcConfig, <<rec_al>>).db}

NoTx == [meets |-> {}, races |-> {}, results |-> {}]

RunInit(results) ==
    [pc |-> "begin", results |-> results, venue_id |-> 0, meet_id |-> 0,
     race_id |-> 0, race_existed |-> FALSE, existing_set |-> {}, i |-> 1,
     athlete_id |-> 0, new_results |-> <<>>, tx |-> NoTx]

\* what the statements of a run's own connection see: the committed rows and
\* the rows of its open transaction
View(p) ==
    [db EXCEPT !.meets = @ \cup runs[p].tx.meets,
               !.races = @ \cup runs[p].tx.races,
               !.results = @ \cup runs[p].tx.results]

ConcFrame == UNCHANGED <<time_src, time_str, parsed, hist, batch, ext>>

ConcInit ==
    /\ db \in PriorStores
    /\ runs \in [Runs -> {RunInit(l) : l \in ConcLists}]
    /\ hist = NoHist
    /\ time_src = TimeSrc("JUNK", NoField, 0, 0, NoField, <<>>, <<>>)
    /\ time_str = <<>>
    /\ parsed = Pending
    /\ ext = <<>>
    /\ batch = <<>>

\* `if not results: return`
Begin(p) ==
    /\ runs[p].pc = "begin"
    /\ runs' = [runs EXCEPT ![p].pc =
                   IF runs[p].results = <<>> THEN "done" ELSE "venue_select"]
    /\ UNCHANGED db
    /\ ConcFrame

\* get_or_create_venue: SELECT id FROM venues WHERE name = :name
VenueSelect(p) ==
    /\ runs[p].pc = "venue_select"
    /\ LET found == {r \in db.venues : r.name = ConcConfig.venue}
       IN  runs' = IF found # {}
                   THEN [runs EXCEPT ![p].venue_id = FetchOne(found).id,
                                     ![p].pc = "meet_select"]
                   ELSE [runs EXCEPT ![p].pc = "venue_insert"]
    /\ UNCHANGED db
    /\ ConcFrame

\* get_or_create_venue: INSERT INTO venues, conn.commit()
VenueInsert(p) ==
    /\ runs[p].pc = "venue_insert"
    /\ LET id == db.seq.venues + 1
       IN  /\ db' = InsertRow(db, "venues", [id |-> id, name |-> ConcConfig.venue])
           /\ runs' = [runs EXCEPT ![p].venue_id = id, ![p].pc = "meet_select"]
    /\ ConcFrame

\* SELECT id FROM meets
MeetSelect(p) ==
    /\ runs[p].pc = "meet_select"
    /\ LET found == find_meet(View(p), runs[p].venue_id, ConcConfig)
       IN  runs' = IF found # {}
                   THEN [runs EXCEPT ![p].meet_id = FetchOne(found).id,
                                     ![p].pc = "race_select"]
                   ELSE [runs EXCEPT ![p].pc = "meet_insert"]
    /\ UNCHANGED db
    /\ ConcFrame

\* INSERT INTO meets, in the run's open transaction
MeetInsert(p) ==
    /\ runs[p].pc = "meet_insert"
    /\ LET id == db.seq.meets + 1
       IN  /\ db' = [db EXCEPT !.seq.meets = id]
           /\ runs' = [runs EXCEPT
                          ![p].tx.meets = @ \cup {MeetRow(id, runs[p].venue_id, ConcConfig)},
                          ![p].meet_id = id,
                          ![p].pc = "race_select"]
    /\ ConcFrame

\* SELECT id FROM races
RaceSelect(p) ==
    /\ runs[p].pc = "race_select"
    /\ LET found == find_race(View(p), runs[p].meet_id, ConcConfig)
       IN  runs' = IF found # {}
                   THEN [runs EXCEPT ![p].race_id = FetchOne(found).id,
                                     ![p].race_existed = TRUE,
                                     ![p].pc = "existing_select"]
                   ELSE [runs EXCEPT ![p].pc = "race_insert"]
    /\ UNCHANGED db
    /\ ConcFrame

\* INSERT INTO races, in the run's open transaction
RaceInsert(p) ==
    /\ runs[p].pc = "race_insert"
    /\ LET id == db.seq.races + 1
       IN  /\ db' = [db EXCEPT !.seq.races = id]
           /\ runs' = [runs EXCEPT
                          ![p].tx.races = @ \cup {RaceRow(id, runs[p].meet_id, ConcConfig)},
                          ![p].race_id = id,
                          ![p].i = 1,
                          ![p].pc = "athlete_select"]
    /\ ConcFrame

\* the SELECT of the race's stored results, and existing_set built from it
ExistingSelect(p) ==
    /\ runs[p].pc = "existing_select"
    /\ runs' = [runs EXCEPT ![p].existing_set = existing_set_of(View(p), runs[p].race_id),
                            ![p].i = 1,
                            ![p].new_results = <<>>,
                            ![p].pc = "check_result"]
    /\ UNCHANGED db
    /\ ConcFrame

\* one turn of `for result in results` in the existing-race branch, up to its
\* call of get_or_create_athlete; after the last record, `if new_results`
CheckResult(p) ==
    /\ runs[p].pc = "check_result"
    /\ runs' = IF runs[p].i > Len(runs[p].results)
               THEN [runs EXCEPT ![p].pc = IF runs[p].new_results # <<>>
                                           THEN "bulk_insert" ELSE "commit"]
               ELSE IF is_new_result(runs[p].results[runs[p].i], runs[p].existing_set)
                    THEN [runs EXCEPT ![p].pc = "athlete_select"]
                    ELSE [runs EXCEPT ![p].i = @ + 1]
    /\ UNCHANGED db
    /\ ConcFrame

\* the run after get_or_create_athlete returned id: the existing-race branch
\* appends to new_results, the new-race branch goes on to its INSERT
AthleteKnown(p, id) ==
    IF runs[p].race_existed
    THEN [runs EXCEPT ![p].new_results =
                          Append(@, [idx |-> runs[p].i, athlete_id |-> id,
                                     result |-> runs[p].results[runs[p].i]]),
                      ![p].i = @ + 1,
                      ![p].pc = "check_result"]
    ELSE [runs EXCEPT ![p].athlete_id = id, ![p].pc = "result_insert"]

\* get_or_create_athlete: SELECT id FROM athletes
AthleteSelect(p) ==
    /\ runs[p].pc = "athlete_select"
    /\ LET athlete == runs[p].results[runs[p].i].athlete
           found == {r \in db.athletes :
                        /\ r.first_name = athlete.first_name
                        /\ r.last_name = athlete.last_name
                        /\ r.gender = athlete.gender
                        /\ r.school = athlete.school}
       IN  runs' = IF found # {}
                   THEN AthleteKnown(p, FetchOne(found).id)
                   ELSE [runs EXCEPT ![p].pc = "athlete_insert"]
    /\ UNCHANGED db
    /\ ConcFrame

\* get_or_create_athlete: INSERT INTO athletes, conn.commit()
AthleteInsert(p) ==
    /\ runs[p].pc = "athlete_insert"
    /\ LET athlete == runs[p].results[runs[p].i].athlete
           id == db.seq.athletes + 1
       IN  /\ db' = InsertRow(db, "athletes",
                        [id |-> id,
                         first_name |-> athlete.first_name,
                         last_name |-> athlete.last_name,
                         gender |-> athlete.gender,
                         school |-> athlete.school,
                         graduation_year |-> athlete.graduation_year])
           /\ runs' = AthleteKnown(p, id)
    /\ ConcFrame

\* the new-race branch: INSERT INTO results for one record
ResultInsert(p) ==
    /\ runs[p].pc = "result_insert"
    /\ LET id == db.seq.results + 1
           row == ResultRow(id, runs[p].race_id, runs[p].athlete_id,
                            runs[p].results[runs[p].i])
       IN  /\ db' = [db EXCEPT !.seq.results = id]
           /\ runs' = [runs EXCEPT
                          ![p].tx.results = @ \cup {row},
                          ![p].i = @ + 1,
                          ![p].pc = IF runs[p].i + 1 > Len(runs[p].results)
                                    THEN "commit" ELSE "athlete_select"]
    /\ ConcFrame

\* the existing-race branch: the bulk INSERT INTO results of new_results
BulkInsert(p) ==
    /\ runs[p].pc = "bulk_insert"
    /\ LET n == Len(runs[p].new_results)
           rows == {ResultRow(db.seq.results + k, runs[p].race_id,
                              runs[p].new_results[k].athlete_id,
                              runs[p].new_results[k].result) : k \in 1..n}
       IN  /\ db' = [db EXCEPT !.seq.results = @ + n]
           /\ runs' = [runs EXCEPT ![p].tx.results = @ \cup rows,
                                   ![p].pc = "commit"]
    /\ ConcFrame

\* conn.commit()
Commit(p) ==
    /\ runs[p].pc = "commit"
    /\ db' = [db EXCEPT !.meets = @ \cup runs[p].tx.meets,
                        !.races = @ \cup runs[p].tx.races,
                        !.results = @ \cup runs[p].tx.results]
    /\ runs' = [runs EXCEPT ![p].tx = NoTx, ![p].pc = "done"]
    /\ ConcFrame

ConcNext ==
    \E p \in Runs :
        \/ Begin(p)
        \/ VenueSelect(p)
        \/ VenueInsert(p)
        \/ MeetSelect(p)
        \/ MeetInsert(p)
        \/ RaceSelect(p)
        \/ RaceInsert(p)
        \/ ExistingSelect(p)
        \/ CheckResult(p)
        \/ AthleteSelect(p)
        \/ AthleteInsert(p)
        \/ ResultInsert(p)
        \/ BulkInsert(p)
        \/ Commit(p)

SpecConc == ConcInit /\ [][ConcNext]_vars

\* C4: when two runs store the same race concurrently, no result is stored
\* twice for it: the committed results of one race never hold two rows with
\* the same key.
C4_InsertedAtMostOnce ==
    \A x, y \in db.results :
        (x.race_id = y.race_id /\ KeyOfRow(db, x) = KeyOfRow(db, y)) => x = y


(***************************************************************************)
(* main: the loop over the race descriptors.  A document is what the       *)
(* descriptor's source holds: whether it can be read at all, whether the   *)
(* section the algorithm looks for is in it, and the result rows of that   *)
(* section, each with its place cell, its time cell and the athlete the    *)
(* extractor builds from its name and school cells.                        *)
(***************************************************************************)
\* the number of descriptors in the configuration file
MaxRaces == 3

Algorithms ==
    {"default", "john_martin", "thornton_combined", "raw_combined",
     "raw_windsor_combined", "desert_twilight", "loveland_sweetheart",
     "longs_peak", "northern_conference"}

\* the algorithms that return [] without a results_title in the descriptor
TitleAlgorithms ==
    {"raw_combined", "raw_windsor_combined", "desert_twilight", "loveland_sweetheart"}

Returned(results) == [kind |-> "return", results |-> results, status |-> 0]
Raised == [kind |-> "raise", results |-> <<>>, status |-> 0]
Exited(status) == [kind |-> "exit", results |-> <<>>, status |-> status]

\* time_pattern of scrape_john_martin_format, one token list per alternative
\* and per presence of an optional group; the pattern ends in $
time_pattern ==
    {<<Dgt(1, 2), Lit(":"), Dgt(2, 2)>>,
     <<Dgt(1, 2), Lit(":"), Dgt(2, 2), Lit("."), Dgt(2, 2)>>,
     <<Dgt(1, 2), Lit(":"), Dgt(2, 2), Lit(":"), Dgt(2, 2)>>,
     <<Dgt(1, 2), Lit(":"), Dgt(2, 2), Lit(":"), Dgt(2, 2), Lit("."), Dgt(2, 2)>>,
     <<Dgt(2, 4), Lit("."), Dgt(2, 2)>>}

\* time_pattern.match(time_val)
time_pattern_match(time_val) ==
    \E pat \in time_pattern :
        With(re_match(pat, time_val),
             LAMBDA m : m.ok /\ m.end = Len(time_val) + 1)

\* int(place_val) does not raise ValueError
is_int(place_val) ==
    Len(place_val) > 0 /\ \A j \in 1..Len(place_val) : IsDigit(place_val[j])

RowResult(row, time_seconds) ==
    [athlete |-> row.athlete, time_seconds |-> time_seconds,
     place |-> int(row.place_text), varsity_points |-> 0]

\* mutant of john_martin_row: a row that cannot be read is passed over
john_martin_row_skipping(row) ==
    IF ~time_pattern_match(row.time_text) \/ ~is_int(row.place_text) THEN Returned(<<>>)
    ELSE With(parse_time_to_seconds(row.time_text),
              LAMBDA t :
                IF t.kind = "value" THEN Returned(<<RowResult(row, t.value)>>)
                ELSE Returned(<<>>))

\* one row of scrape_john_martin_format: a time that is not of the pattern, a
\* place that is not a number and a time the parser cannot read each end the
\* process
john_martin_row(row) ==
    IF ~time_pattern_match(row.time_text) THEN Exited(1)
    ELSE IF ~is_int(row.place_text) THEN Exited(1)
    ELSE With(parse_time_to_seconds(row.time_text),
              LAMBDA t :
                IF t.kind = "exit" THEN Exited(t.status)
                ELSE IF t.kind = "none" THEN Exited(1)
                ELSE Returned(<<RowResult(row, t.value)>>))

\* one row of the other extractors: a time the parser cannot read skips the row
lenient_row(row) ==
    With(parse_time_to_seconds(row.time_text),
         LAMBDA t :
           IF t.kind = "exit" THEN Exited(t.status)
           ELSE IF t.kind = "none" THEN Returned(<<>>)
           ELSE Returned(<<RowResult(row, t.value)>>))

RECURSIVE extract_rows(_, _, _, _)
\* the loop over the rows of the section; acc is `results`
extract_rows(algorithm, rows, i, acc) ==
    IF i > Len(rows) THEN Returned(acc)
    ELSE With(IF algorithm = "john_martin"
              THEN john_martin_row(rows[i]) ELSE lenient_row(rows[i]),
              LAMBDA r :
                IF r.kind = "exit" THEN r
                ELSE extract_rows(algorithm, rows, i + 1, acc \o r.results))

\* mutant of unavailable_source: a source that cannot be read ends the process
unavailable_source_fatal(is_file) == Exited(1)

\* a named extractor whose source cannot be read: a missing file returns [],
\* a failed fetch raises, and `except Exception: raise` passes it on
unavailable_source(is_file) == IF is_file THEN Returned(<<>>) ELSE Raised

\* mutant of missing_configuration: only a results_title is asked for
missing_configuration_title_only(algorithm, race_config) ==
    algorithm \in TitleAlgorithms /\ race_config.results_title = ""

\* `if not results_title` and `if not race_number`, each followed by return []
missing_configuration(algorithm, race_config) ==
    \/ algorithm \in TitleAlgorithms /\ race_config.results_title = ""
    \/ algorithm = "northern_conference" /\ race_config.race_number = 0

\* the extractors of the eight named algorithms
scrape_named_format(algorithm, is_file, race_config, doc) ==
    IF ~doc.available THEN unavailable_source(is_file)
    ELSE IF missing_configuration(algorithm, race_config) THEN Returned(<<>>)
    ELSE IF ~doc.section THEN Returned(<<>>)
    ELSE extract_rows(algorithm, doc.rows, 1, <<>>)

\* the default algorithm: a missing file and a failed fetch both return []
scrape_default(is_file, doc) ==
    IF ~doc.available THEN Returned(<<>>)
    ELSE extract_rows("default", doc.rows, 1, <<>>)

scrape_race_results(is_file, algorithm, race_config, doc) ==
    IF algorithm \in Algorithms \ {"default"}
    THEN scrape_named_format(algorithm, is_file, race_config, doc)
    ELSE scrape_default(is_file, doc)

Iteration(d, outcome, status, slept, rows) ==
    [db |-> d, outcome |-> outcome, status |-> status, slept |-> slept, rows |-> rows]

\* mutant of on_system_exit: SystemExit handled like an Exception
on_system_exit_caught(d, status) == Iteration(d, "error", 0, FALSE, {})

\* SystemExit is not an Exception: `except Exception` of main lets it through
\* and the process ends with its status
on_system_exit(d, status) == Iteration(d, "exit", status, FALSE, {})

\* `time.sleep(2)` is reached for a descriptor with a url and no file
sleeps(race_config) == race_config.url # "" /\ race_config.file = ""

\* the body of the try block of main after scrape_race_results returned,
\* raised or ended the process
after_scrape(d, race_config, scraped) ==
    IF scraped.kind = "exit" THEN on_system_exit(d, scraped.status)
    ELSE IF scraped.kind = "raise" THEN Iteration(d, "error", 0, FALSE, {})
    ELSE IF scraped.results # <<>>
         THEN With(store_race_results(d, race_config, scraped.results),
                   LAMBDA r :
                     Iteration(r.db, "stored", 0, sleeps(race_config),
                               {r.inserted[j].row : j \in 1..Len(r.inserted)}))
         ELSE Iteration(d, "no_results", 0, sleeps(race_config), {})

\* one turn of `for race_config in race_configs`
main_iteration(d, race_config, doc) ==
    IF race_config.file # ""
    THEN after_scrape(d, race_config,
             scrape_race_results(TRUE, race_config.algorithm, race_config, doc))
    ELSE IF race_config.url # ""
         THEN after_scrape(d, race_config,
                  scrape_race_results(FALSE, race_config.algorithm, race_config, doc))
         ELSE Iteration(d, "no_source", 0, FALSE, {})

(***************************************************************************)
(* The descriptors and documents main is run on.                           *)
(***************************************************************************)
t_ok == <<"1", "6", ":", "4", "2", ".", "4", "5">>
t_next == <<"1", "7", ":", "0", "5", ".", "1", "0">>
t_over == <<"6", "1", ":", "0", "0", ".", "0", "0">>
t_dnf == <<"D", "N", "F">>

Row(place_text, first, time_text) ==
    [place_text |-> place_text, time_text |-> time_text,
     athlete |-> [first_name |-> first, last_name |-> n_doe, gender |-> g_male,
                  school |-> s_fc, graduation_year |-> 0]]

row_ok == Row(<<"1">>, n_al, t_ok)
row_next == Row(<<"2">>, <<"B", "o">>, t_next)
row_over == Row(<<"4">>, <<"D", "i">>, t_over)
row_dnf == Row(<<"5">>, <<"E", "d">>, t_dnf)
row_no_place == Row(<<"-", "-">>, <<"F", "l">>, t_ok)

Doc(available, section, rows) ==
    [available |-> available, section |-> section, rows |-> rows]

\* the row lists of a section that is present
SectionRows ==
    {<<>>, <<row_ok, row_next>>, <<row_ok, row_over>>, <<row_dnf>>,
     <<row_dnf, row_ok>>}

\* a place cell that is not a number reaches only the john_martin extractor:
\* the row patterns of the others take digits for the place
SectionRowsOf(algorithm) ==
    IF algorithm = "john_martin" THEN SectionRows \cup {<<row_ok, row_no_place>>}
    ELSE SectionRows

the_file == "pages/meet.html"
the_url == "https://example.org/meet"

RaceNames == <<"Race 1", "Race 2", "Race 3", "Race 4">>

MainConfig(k, file, url, algorithm, keyed) ==
    [RaceCfg(RaceNames[k], g_boys, url, file, algorithm) EXCEPT
        !.results_title = IF keyed THEN "Boys 5K" ELSE "",
        !.race_number = IF keyed THEN k ELSE 0]

Input(file, url, algorithm, doc) ==
    [file |-> file, url |-> url, algorithm |-> algorithm, doc |-> doc, keyed |-> TRUE]

\* descriptors without results_title and race_number, for the algorithms that
\* ask for one; the document has the section, a row and a row above the ceiling
UnkeyedInputs ==
    {[Input(the_file, "", a, Doc(TRUE, TRUE, <<row_ok, row_over>>)) EXCEPT !.keyed = FALSE] :
        a \in TitleAlgorithms \cup {"northern_conference"}}

\* a descriptor's source, algorithm and document: no source; a file that is
\* missing; a url whose fetch fails; a document without the section; a
\* section with rows, read from a url or from a file
RaceInputs ==
    UNION {
        {Input("", "", a, Doc(FALSE, FALSE, <<>>)),
         Input(the_file, "", a, Doc(FALSE, FALSE, <<>>)),
         Input("", the_url, a, Doc(FALSE, FALSE, <<>>)),
         Input(the_file, "", a, Doc(TRUE, FALSE, <<>>)),
         Input("", the_url, a, Doc(TRUE, TRUE, <<row_ok>>))}
        \cup {Input(the_file, "", a, Doc(TRUE, TRUE, rows)) : rows \in SectionRowsOf(a)}
        : a \in Algorithms}
    \cup UnkeyedInputs

NoRace == [k |-> 0, rc |-> MainConfig(1, "", "", "default", TRUE),
           doc |-> Doc(FALSE, FALSE, <<>>), outcome |-> "none",
           slept |-> FALSE, before |-> EmptyDb]

MainInit ==
    /\ db = EmptyDb
    /\ \E n \in 1..MaxRaces :
          batch = [n |-> n, k |-> 1, pc |-> "loop", status |-> 0,
                   completed |-> FALSE, stored |-> {},
                   last |-> NoRace]
    /\ runs = <<>>
    /\ hist = NoHist
    /\ time_src = TimeSrc("JUNK", NoField, 0, 0, NoField, <<>>, <<>>)
    /\ time_str = <<>>
    /\ parsed = Pending
    /\ ext = <<>>

\* one turn of the loop of main on descriptor k: extraction, storing, the
\* sleep; batch.stored collects the result rows the batch has written
ProcessRace ==
    /\ batch.pc = "loop"
    /\ batch.k <= batch.n
    /\ \E in \in RaceInputs :
       \E rc \in {MainConfig(batch.k, in.file, in.url, in.algorithm, in.keyed)} :
       \E it \in {main_iteration(db, rc, in.doc)} :
          /\ db' = it.db
          /\ batch' = [batch EXCEPT
                          !.k = IF it.outcome = "exit" THEN @ ELSE @ + 1,
                          !.pc = IF it.outcome = "exit" THEN "exited" ELSE @,
                          !.status = it.status,
                          !.stored = @ \cup it.rows,
                          !.last = [k |-> batch.k, rc |-> rc, doc |-> in.doc,
                                    outcome |-> it.outcome, slept |-> it.slept,
                                    before |-> db]]
    /\ UNCHANGED <<time_src, time_str, parsed, hist, runs, ext>>

\* the loop is over: "Scraping completed", and main returns
ScrapingCompleted ==
    /\ batch.pc = "loop"
    /\ batch.k > batch.n
    /\ batch' = [batch EXCEPT !.pc = "done", !.completed = TRUE]
    /\ UNCHANGED <<db, time_src, time_str, parsed, hist, runs, ext>>

MainNext == ProcessRace \/ ScrapingCompleted

SpecMain == MainInit /\ [][MainNext]_vars


(***************************************************************************)
(* Properties of main (checked under SpecMain).                            *)
(***************************************************************************)
LastRace == batch.last
Processed == LastRace.k > 0

HasSource(rc) == rc.file # "" \/ rc.url # ""

\* the descriptor names what its algorithm looks for
Keyed(rc) ==
    /\ rc.algorithm \in TitleAlgorithms => rc.results_title # ""
    /\ rc.algorithm = "northern_conference" => rc.race_number # 0

\* the rows of the document are read: the source is there and readable, and
\* the section the algorithm looks for is in it
RowsRead(l) ==
    /\ HasSource(l.rc)
    /\ l.doc.available
    /\ Keyed(l.rc)
    /\ l.rc.algorithm # "default" => l.doc.section

\* a time above the ceiling, or, in the strict layout, a field that cannot be
\* read
FatalRow(algorithm, row) ==
    \/ parse_time_to_seconds(row.time_text).kind = "exit"
    \/ /\ algorithm = "john_martin"
       /\ \/ ~time_pattern_match(row.time_text)
          \/ ~is_int(row.place_text)
          \/ parse_time_to_seconds(row.time_text).kind = "none"

FatalOccurs(l) ==
    /\ RowsRead(l)
    /\ \E i \in 1..Len(l.doc.rows) : FatalRow(l.rc.algorithm, l.doc.rows[i])

\* C9: a fatal condition met while race k is extracted ends the process with
\* a non-zero status: nothing is written for race k, the loop does not go on
\* to a later race, "Scraping completed" is not reached, and the results the
\* batch stored for earlier races are still stored.
C9_FatalAbortsBatch ==
    (Processed /\ FatalOccurs(LastRace)) =>
        /\ db = LastRace.before
        /\ batch.pc = "exited"
        /\ batch.status # 0
        /\ ~batch.completed
        /\ batch.k = LastRace.k
        /\ batch.stored \subseteq db.results

C9_Witness ==
    /\ Processed
    /\ FatalOccurs(LastRace)
    /\ LastRace.k = 2
    /\ batch.n > LastRace.k
    /\ batch.stored # {}
    /\ batch.pc = "exited"

\* no source, a missing file, a failed fetch, an absent section, or rows of
\* which none gives a result
Recoverable(l) ==
    \/ ~HasSource(l.rc)
    \/ HasSource(l.rc) /\ ~l.doc.available
    \/ /\ HasSource(l.rc)
       /\ l.doc.available
       /\ l.rc.algorithm # "default"
       /\ ~l.doc.section
    \/ /\ RowsRead(l)
       /\ ~FatalOccurs(l)
       /\ \A i \in 1..Len(l.doc.rows) :
             parse_time_to_seconds(l.doc.rows[i].time_text).kind = "none"

MissingConfiguration(l) ==
    /\ HasSource(l.rc)
    /\ l.doc.available
    /\ l.rc.algorithm \in TitleAlgorithms \cup {"northern_conference"}
    /\ ~Keyed(l.rc)

\* C14: a descriptor without the results title or race number its algorithm
\* needs gives no records whatever the document holds: no row is read (a row
\* that would end the process does not), nothing is stored, and the loop goes
\* on; the outcome is the same for the five extractors.
C14_MissingConfiguration ==
    (Processed /\ MissingConfiguration(LastRace)) =>
        /\ LastRace.outcome = "no_results"
        /\ db = LastRace.before
        /\ batch.pc # "exited"
        /\ batch.k = LastRace.k + 1

C14_Witness ==
    /\ Processed
    /\ MissingConfiguration(LastRace)
    /\ LastRace.rc.algorithm = "northern_conference"
    /\ LastRace.doc.rows = <<row_ok, row_over>>
    /\ LastRace.k = 2
    /\ db.results # {}

\* the race is read from the network: a url and no file
NetworkSourced(rc) == rc.url # "" /\ rc.file = ""

\* C19: after a race read from a url the delay step is taken before the next
\* descriptor, whether results were stored, none were found or the fetch or
\* the extraction failed; after a race read from a file it is not taken.
C19_PolitenessDelay ==
    (Processed /\ LastRace.outcome # "exit") =>
        (LastRace.slept <=> NetworkSourced(LastRace.rc))

(***************************************************************************)
(* One extractor or normaliser call on its own: ext holds the call's input *)
(* and, once it has returned, its result.  The other variables stay idle.  *)
(***************************************************************************)
ExtIdle ==
    /\ db = EmptyDb
    /\ hist = NoHist
    /\ time_src = TimeSrc("JUNK", NoField, 0, 0, NoField, <<>>, <<>>)
    /\ time_str = <<>>
    /\ parsed = Pending
    /\ runs = <<>>
    /\ batch = <<>>

ExtFrame == UNCHANGED <<time_src, time_str, parsed, db, hist, runs, batch>>

\* the smallest member of a non-empty set of numbers
Least(S) == CHOOSE i \in S : \A j \in S : i <= j

(***************************************************************************)
(* scrape_thornton_combined_format on the text of the <pre> tag, line by   *)
(* line: a race header, the dashes under the column titles, a result row   *)
(* of the line grammar, or a "Team Scores" line.                           *)
(***************************************************************************)
\* the largest number of lines of a document
MaxLines == 5

h_varsity_boys == "Varsity Boys 5000 Meter Run"
h_varsity_girls == "Varsity Girls 5000 Meter Run"
h_jv_boys == "JV Boys 5000 Meter Run"
h_jv_girls == "JV Girls 5000 Meter Run"

HeaderLine(text) == [t |-> "header", text |-> text]
DashesLine == [t |-> "dashes", text |-> ""]
RowLine == [t |-> "row", text |-> ""]
TeamScoresLine == [t |-> "team", text |-> "Team Scores"]

ThorntonLines ==
    {HeaderLine(h_varsity_boys), HeaderLine(h_varsity_girls), HeaderLine(h_jv_boys),
     DashesLine, RowLine, TeamScoresLine}

\* target_race_header for the descriptor's race class and gender, "" for an
\* unknown combination
target_race_header(race_class, gender_str) ==
    CASE race_class = "jv" /\ gender_str = g_boys -> h_jv_boys
      [] race_class = "jv" /\ gender_str = g_girls -> h_jv_girls
      [] race_class = "varsity" /\ gender_str = g_boys -> h_varsity_boys
      [] race_class = "varsity" /\ gender_str = g_girls -> h_varsity_girls
      [] OTHER -> ""

\* end_patterns, in the order of the list: "Team Scores", a JV race header,
\* a Varsity race header
end_pattern_matches(k, line) ==
    CASE k = 1 -> line.t = "team"
      [] k = 2 -> line.t = "header" /\ line.text \in {h_jv_boys, h_jv_girls}
      [] k = 3 -> line.t = "header" /\ line.text \in {h_varsity_boys, h_varsity_girls}

\* re.search(pattern, text[start_pos:]): the first line after the header
\* line that pattern k matches, 0 if none
end_match(lines, start, k) ==
    LET hits == {i \in (start + 1)..Len(lines) : end_pattern_matches(k, lines[i])}
    IN  IF hits = {} THEN 0 ELSE Least(hits)

\* end_pos: the match of the first pattern of the list that matches at all
thornton_end_pos(lines, start) ==
    LET found == {k \in 1..3 : end_match(lines, start, k) # 0}
    IN  IF found = {} THEN Len(lines) + 1
        ELSE end_match(lines, start, Least(found))

RECURSIVE parse_thornton_race_text(_, _, _, _, _)
\* the loop over the lines i..last of race_text: rows count after the dashes
\* and up to a "Team Scores" line; acc is the lines that gave a result
parse_thornton_race_text(lines, i, last, in_results, acc) ==
    IF i > last THEN acc
    ELSE IF lines[i].t = "dashes"
         THEN parse_thornton_race_text(lines, i + 1, last, TRUE, acc)
    ELSE IF ~in_results
         THEN parse_thornton_race_text(lines, i + 1, last, FALSE, acc)
    ELSE IF lines[i].t = "team" THEN acc
    ELSE IF lines[i].t = "row"
         THEN parse_thornton_race_text(lines, i + 1, last, TRUE, Append(acc, i))
    ELSE parse_thornton_race_text(lines, i + 1, last, TRUE, acc)

\* the lines of the document that scrape_thornton_combined_format returns
\* a result for
scrape_thornton_combined_format(lines, race_class, gender_str) ==
    LET header == target_race_header(race_class, gender_str)
        starts == {i \in 1..Len(lines) : lines[i] = HeaderLine(header)}
    IN  IF header = "" \/ starts = {} THEN <<>>
        ELSE parse_thornton_race_text(lines, Least(starts) + 1,
                 thornton_end_pos(lines, Least(starts)) - 1, FALSE, <<>>)

\* the documents: up to MaxLines lines, no race header twice
ThorntonDocs ==
    {lines \in UNION {[1..n -> ThorntonLines] : n \in 0..MaxLines} :
        \A i, j \in 1..Len(lines) :
            (lines[i].t = "header" /\ lines[i] = lines[j]) => i = j}

ThorntonInit ==
    /\ \E lines \in ThorntonDocs, gender_str \in {g_boys, g_girls} :
          ext = [op |-> "thornton_combined", pc |-> "call", lines |-> lines,
                 race_class |-> "varsity", gender |-> gender_str, results |-> <<>>]
    /\ ExtIdle

ThorntonExtract ==
    /\ ext.pc = "call"
    /\ ext' = [ext EXCEPT
                  !.pc = "returned",
                  !.results = scrape_thornton_combined_format(
                                  ext.lines, ext.race_class, ext.gender)]
    /\ ExtFrame

ThorntonNext == ThorntonExtract

SpecThornton == ThorntonInit /\ [][ThorntonNext]_vars

\* the line of the target header, and the first section delimiter after it
TargetLine ==
    Least({i \in 1..Len(ext.lines) :
              ext.lines[i] = HeaderLine(target_race_header(ext.race_class, ext.gender))})

FirstDelimiter ==
    LET after == {i \in (TargetLine + 1)..Len(ext.lines) :
                     ext.lines[i].t \in {"header", "team"}}
    IN  IF after = {} THEN Len(ext.lines) + 1 ELSE Least(after)

\* C11: every record thornton_combined returns comes from a line between the
\* target header and the first race header or "Team Scores" line after it.
C11_SectionBoundary ==
    (ext.pc = "returned" /\ ext.results # <<>>) =>
        \A j \in 1..Len(ext.results) :
            TargetLine < ext.results[j] /\ ext.results[j] < FirstDelimiter


(***************************************************************************)
(* The title-driven extractors (raw_combined, raw_windsor_combined,        *)
(* desert_twilight, loveland_sweetheart): which section of the document    *)
(* they parse.  A document is a sequence of sections, each a header line   *)
(* followed by its result rows.                                            *)
(***************************************************************************)
\* the largest number of sections of a document
MaxSections == 2

title_varsity_boys == <<"V", "a", "r", "s", "i", "t", "y", " ", "B", "o", "y", "s">>
title_varsity_girls == <<"V", "a", "r", "s", "i", "t", "y", " ", "G", "i", "r", "l", "s">>
header_junior_varsity_boys == <<"J", "u", "n", "i", "o", "r", " ", "V", "a", "r", "s", "i", "t", "y", " ", "B", "o", "y", "s">>
header_varsity_boys_padded == <<" ", "V", "a", "r", "s", "i", "t", "y", " ", "B", "o", "y", "s", " ">>

SectionHeaders ==
    {title_varsity_boys, title_varsity_girls, header_junior_varsity_boys,
     header_varsity_boys_padded}

Section(header, n) == [header |-> header, n |-> n]

\* the lines of a document: each section's header line, then its rows
RECURSIVE SectionLines(_)
SectionLines(sections) ==
    IF sections = <<>> THEN <<>>
    ELSE <<[t |-> "header", text |-> sections[1].header]>>
         \o [j \in 1..sections[1].n |-> [t |-> "row", text |-> <<>>]]
         \o SectionLines(Tail(sections))

\* title in text
contains(text, title) ==
    \E k \in 1..(Len(text) - Len(title) + 1) :
        SubSeq(text, k, k + Len(title) - 1) = title

\* the line the parse starts from, 0 if the title is not found:
\* loveland_sweetheart takes the first line that is the title once stripped,
\* the other three the line of content.find(results_title)
title_line(algorithm, lines, results_title) ==
    LET hits == IF algorithm = "loveland_sweetheart"
                THEN {i \in 1..Len(lines) : strip(lines[i].text) = results_title}
                ELSE {i \in 1..Len(lines) : contains(lines[i].text, results_title)}
    IN  IF hits = {} THEN 0 ELSE Least(hits)

RECURSIVE section_rows(_, _, _)
\* the rows from line i on, up to the header of the next section
section_rows(lines, i, acc) ==
    IF i > Len(lines) \/ lines[i].t = "header" THEN acc
    ELSE section_rows(lines, i + 1, Append(acc, i))

\* the lines a title-driven extractor returns a result for
scrape_titled_format(algorithm, lines, results_title) ==
    IF results_title = <<>> THEN <<>>
    ELSE LET start == title_line(algorithm, lines, results_title)
         IN  IF start = 0 THEN <<>> ELSE section_rows(lines, start + 1, <<>>)

\* up to MaxSections sections, no header twice, one or two rows each
TitledDocs ==
    {d \in UNION {[1..n -> {Section(h, k) : h \in SectionHeaders, k \in 1..2}] :
                     n \in 0..MaxSections} :
        \A i, j \in 1..Len(d) : d[i].header = d[j].header => i = j}

TitledInit ==
    /\ \E algorithm \in TitleAlgorithms, d \in TitledDocs,
          title \in {title_varsity_boys, title_varsity_girls} :
          ext = [op |-> algorithm, pc |-> "call", lines |-> SectionLines(d),
                 results_title |-> title, results |-> <<>>]
    /\ ExtIdle

TitledExtract ==
    /\ ext.pc = "call"
    /\ ext' = [ext EXCEPT
                  !.pc = "returned",
                  !.results = scrape_titled_format(ext.op, ext.lines, ext.results_title)]
    /\ ExtFrame

TitledNext == TitledExtract

SpecTitled == TitledInit /\ [][TitledNext]_vars

\* the header line of the section that line i belongs to
HeaderOf(i) ==
    CHOOSE h \in 1..i :
        /\ ext.lines[h].t = "header"
        /\ \A j \in (h + 1)..i : ext.lines[j].t # "header"

\* C12: every record a title-driven extractor returns comes from a section
\* whose header is exactly the descriptor's results_title.
C12_ExactTitle ==
    (ext.pc = "returned") =>
        \A j \in 1..Len(ext.results) :
            strip(ext.lines[HeaderOf(ext.results[j])].text) = ext.results_title


(***************************************************************************)
(* scrape_northern_conference_format, line by line: a "Race #n" line, an   *)
(* "Individual Results" line, or a result row of eight tab-separated       *)
(* fields.                                                                 *)
(***************************************************************************)
RECURSIVE str(_)
\* str(n) of a natural number
str(n) ==
    IF n < 10 THEN <<DigitChars[n + 1]>>
    ELSE str(n \div 10) \o <<DigitChars[(n % 10) + 1]>>

\* the text "Race #" followed by n
race_marker(n) == <<"R", "a", "c", "e", " ", "#">> \o str(n)

startswith(text, prefix) ==
    Len(text) >= Len(prefix) /\ SubSeq(text, 1, Len(prefix)) = prefix

RaceLine(n) == [t |-> "race", text |-> race_marker(n)]
IndividualResultsLine == [t |-> "individual", text |-> <<>>]
ResultLine == [t |-> "row", text |-> <<>>]

NorthernLines == {RaceLine(1), RaceLine(2), RaceLine(10), IndividualResultsLine, ResultLine}

RECURSIVE northern_rows(_, _, _)
\* the loop over the lines after "Individual Results", up to a line that
\* starts with "Race #"; acc is the lines that gave a result
northern_rows(lines, i, acc) ==
    IF i > Len(lines) THEN acc
    ELSE IF lines[i].t = "race" THEN acc
    ELSE IF lines[i].t = "row" THEN northern_rows(lines, i + 1, Append(acc, i))
    ELSE northern_rows(lines, i + 1, acc)

\* the lines scrape_northern_conference_format returns a result for
scrape_northern_conference_format(lines, race_number) ==
    IF race_number = 0 THEN <<>>
    ELSE LET starts == {i \in 1..Len(lines) :
                           startswith(strip(lines[i].text), race_marker(race_number))}
         IN  IF starts = {} THEN <<>>
             ELSE LET individual == {i \in Least(starts)..Len(lines) :
                                        lines[i].t = "individual"}
                  IN  IF individual = {} THEN <<>>
                      ELSE northern_rows(lines, Least(individual) + 1, <<>>)

NorthernDocs == UNION {[1..n -> NorthernLines] : n \in 0..MaxLines}

NorthernInit ==
    /\ \E lines \in NorthernDocs, race_number \in {0, 1, 2} :
          ext = [op |-> "northern_conference", pc |-> "call", lines |-> lines,
                 race_number |-> race_number, results |-> <<>>]
    /\ ExtIdle

NorthernExtract ==
    /\ ext.pc = "call"
    /\ ext' = [ext EXCEPT
                  !.pc = "returned",
                  !.results = scrape_northern_conference_format(ext.lines, ext.race_number)]
    /\ ExtFrame

NorthernNext == NorthernExtract

SpecNorthern == NorthernInit /\ [][NorthernNext]_vars

\* line i lies in the section of race n: the last "Race #" line before it is
\* "Race #n"
InRaceSection(i, n) ==
    \E h \in 1..(i - 1) :
        /\ ext.lines[h] = RaceLine(n)
        /\ \A j \in (h + 1)..i : ext.lines[j].t # "race"

\* C13: every record northern_conference returns for race_number n comes from
\* a line after the header "Race #n" and before the next "Race #" line.
C13_NumericRaceIndex ==
    (ext.pc = "returned") =>
        \A j \in 1..Len(ext.results) : InRaceSection(ext.results[j], ext.race_number)


(***************************************************************************)
(* scrape_john_martin_format on a table: each <tr> with its number of <td>  *)
(* cells and the text of the place, name, school and time cells.           *)
(***************************************************************************)
MaxRows == 3

Tr(cells, place_text, name_text, time_text) ==
    [cells |-> cells, place_text |-> place_text, name_text |-> name_text,
     school_text |-> s_fc, time_text |-> time_text]

name_al_doe == <<"a", "l", " ", "D", "O", "E">>
name_bo == <<"B", "o">>

tr_head == Tr(4, <<"P", "l">>, <<"N", "a", "m", "e">>, <<"T", "i", "m", "e">>)
tr_ok == Tr(4, <<"1">>, name_al_doe, t_ok)
tr_next == Tr(4, <<"2">>, name_bo, t_next)
tr_three == Tr(3, <<"3">>, name_bo, t_ok)
tr_dnf == Tr(4, <<"4">>, name_bo, t_dnf)
tr_no_place == Tr(4, <<"-", "-">>, name_bo, t_ok)
tr_no_name == Tr(4, <<"5">>, <<" ">>, t_ok)
tr_over == Tr(4, <<"6">>, name_bo, t_over)

TableRows == {tr_head, tr_ok, tr_next, tr_three, tr_dnf, tr_no_place, tr_no_name, tr_over}

\* the Athlete built from the name and school cells
john_martin_athlete(tr) ==
    LET name_parts == split(tr.name_text)
    IN  [first_name |-> normalize_name(name_parts[1]),
         last_name |-> normalize_name(join(Tail(name_parts))),
         gender |-> map_gender_for_db(g_boys),
         school |-> normalize_school_name(tr.school_text),
         graduation_year |-> 0]

NoAthlete ==
    [first_name |-> <<>>, last_name |-> <<>>, gender |-> <<>>, school |-> <<>>,
     graduation_year |-> 0]

\* the body of the loop for a row of four cells: name_parts[0] of a blank
\* name raises IndexError, which ends the process like the other failures
john_martin_cells(tr) ==
    IF split(tr.name_text) = <<>>
    THEN With(john_martin_row([place_text |-> tr.place_text, time_text |-> tr.time_text,
                               athlete |-> NoAthlete]),
              LAMBDA r : IF r.kind = "exit" THEN r ELSE Exited(1))
    ELSE john_martin_row([place_text |-> tr.place_text, time_text |-> tr.time_text,
                          athlete |-> john_martin_athlete(tr)])

RECURSIVE john_martin_rows(_, _, _)
\* `for row in rows`; acc pairs each result with the number of its row
john_martin_rows(rows, i, acc) ==
    IF i > Len(rows) THEN [kind |-> "return", results |-> acc, status |-> 0]
    ELSE IF rows[i].cells # 4 THEN john_martin_rows(rows, i + 1, acc)
    ELSE With(john_martin_cells(rows[i]),
              LAMBDA r :
                IF r.kind = "exit" THEN r
                ELSE john_martin_rows(rows, i + 1,
                         acc \o [j \in 1..Len(r.results) |->
                                    [tr |-> i, result |-> r.results[j]]]))

\* scrape_john_martin_format on the rows of the table; the first row is
\* skipped when there is more than one
scrape_john_martin_format(rows) ==
    john_martin_rows(rows, IF Len(rows) > 1 THEN 2 ELSE 1, <<>>)

Tables == UNION {[1..n -> TableRows] : n \in 0..MaxRows}

JohnMartinInit ==
    /\ \E rows \in Tables :
          ext = [op |-> "john_martin", pc |-> "call", rows |-> rows,
                 kind |-> "", status |-> 0, results |-> <<>>]
    /\ ExtIdle

JohnMartinExtract ==
    /\ ext.pc = "call"
    /\ \E r \in {scrape_john_martin_format(ext.rows)} :
          ext' = [ext EXCEPT !.pc = "returned", !.kind = r.kind,
                             !.status = r.status, !.results = r.results]
    /\ ExtFrame

JohnMartinNext == JohnMartinExtract

SpecJohnMartin == JohnMartinInit /\ [][JohnMartinNext]_vars

\* the rows of four cells other than the skipped first row
ScoredRows ==
    {i \in 1..Len(ext.rows) :
        ext.rows[i].cells = 4 /\ (i > 1 \/ Len(ext.rows) = 1)}

\* C15: john_martin either ends the process with a non-zero status or returns
\* exactly one record for each row of four cells after the skipped first row,
\* in the order of the rows; no such row is passed over.
C15_StrictLayout ==
    (ext.pc = "returned") =>
        \/ ext.kind = "exit" /\ ext.status # 0
        \/ /\ ext.kind = "return"
           /\ {ext.results[j].tr : j \in 1..Len(ext.results)} = ScoredRows
           /\ Len(ext.results) = Cardinality(ScoredRows)
           /\ \A j \in 1..(Len(ext.results) - 1) :
                 ext.results[j].tr < ext.results[j + 1].tr

\* a table with a row that cannot be read ends the process
C15_Witness ==
    /\ ext.pc = "returned"
    /\ ext.rows = <<tr_head, tr_ok, tr_dnf>>
    /\ ext.kind = "exit"


(***************************************************************************)
(* The place validation: which extractors compare the highest place with   *)
(* the number of results, and what the comparison logs.                    *)
(***************************************************************************)
MaxPlace == 4

\* the branches of the default chain: a <pre> block, a table with times, or
\* the text of the page
DefaultPaths == {"pre", "table", "text"}

Highest(places) == CHOOSE m \in places : \A o \in places : o <= m

\* `if results: ... if max_place != total_results: logger.warning(...)`
place_validation(results) ==
    /\ results # <<>>
    /\ Highest({results[j].place : j \in 1..Len(results)}) # Len(results)

\* the extractors whose code holds the validation: parse_thornton_race_text,
\* parse_pre_formatted_results and parse_results_from_text
has_place_validation(algorithm, path) ==
    \/ algorithm = "thornton_combined"
    \/ algorithm = "default" /\ path \in {"pre", "text"}

\* whether the invocation logs the place warning for the results it returns
place_warning(algorithm, path, results) ==
    has_place_validation(algorithm, path) /\ place_validation(results)

PlaceLists == UNION {[1..n -> 1..MaxPlace] : n \in 0..MaxRows}

ValidateInit ==
    /\ \E algorithm \in Algorithms, places \in PlaceLists :
       \E path \in (IF algorithm = "default" THEN DefaultPaths ELSE {"format"}) :
          ext = [op |-> "extract", pc |-> "call", algorithm |-> algorithm,
                 path |-> path, places |-> places, results |-> <<>>, warned |-> FALSE]
    /\ ExtIdle

\* one extractor invocation that reads a row for each place of ext.places
ExtractAndValidate ==
    /\ ext.pc = "call"
    /\ \E results \in {[j \in 1..Len(ext.places) |->
                          Rec(n_al, n_doe, s_fc, 1002451 + j, ext.places[j])]} :
          ext' = [ext EXCEPT
                     !.pc = "returned",
                     !.results = results,
                     !.warned = place_warning(ext.algorithm, ext.path, results)]
    /\ ExtFrame

ValidateNext == ExtractAndValidate

SpecValidate == ValidateInit /\ [][ValidateNext]_vars

\* C16: every extractor invocation that returns a non-empty list whose
\* highest place differs from the number of records logs the place warning.
C16_PlaceValidationEveryExtractor ==
    (/\ ext.pc = "returned"
     /\ ext.results # <<>>
     /\ Highest({ext.places[j] : j \in 1..Len(ext.places)}) # Len(ext.results))
        => ext.warned


(***************************************************************************)
(* normalize_school_name and normalize_name on their own.                  *)
(***************************************************************************)
sc_poudre == <<"P", "o", "u", "d", "r", "e">>

SchoolBases ==
    {sc_fort_collins, lower(sc_fort_collins), sc_fossil_ridge, sc_rocky_mountain,
     lower(sc_rocky_mountain), sc_fchs, lower(sc_fchs), sc_poudre}

SchoolSuffixes == {<<>>, sc_hs, lower(sc_hs), sc_high_sc, sc_high_school}

\* a school as a results page writes it, with up to MaxPad blanks on each side
SchoolTexts ==
    {Blanks(l) \o base \o suffix \o Blanks(r) :
        l \in 0..MaxPad, r \in 0..MaxPad, base \in SchoolBases, suffix \in SchoolSuffixes}

SchoolInit ==
    /\ \E school \in SchoolTexts :
          ext = [op |-> "normalize_school_name", pc |-> "call", school |-> school,
                 result |-> <<>>]
    /\ ExtIdle

NormalizeSchool ==
    /\ ext.pc = "call"
    /\ ext' = [ext EXCEPT !.pc = "returned", !.result = normalize_school_name(ext.school)]
    /\ ExtFrame

SchoolNext == NormalizeSchool

SpecSchool == SchoolInit /\ [][SchoolNext]_vars

\* the canonical name of a school: the table entry whose key is the trimmed
\* input up to letter case, else " HS" replaced by " High School", else the
\* trimmed input
CanonicalSchool(school) ==
    LET trimmed == strip(school)
        entries == {m \in school_mappings : lower(m[1]) = lower(trimmed)}
    IN  IF entries # {} THEN (CHOOSE m \in entries : TRUE)[2]
        ELSE IF endswith(trimmed, sc_hs)
             THEN SubSeq(trimmed, 1, Len(trimmed) - 3) \o sc_high_school
             ELSE trimmed

\* C17: normalize_school_name gives the canonical name of a table entry
\* whatever the letter case of the input ("fort collins", "Fort Collins HS"
\* and "Fort Collins High Sc" all give "Fort Collins High School"), replaces
\* a final " HS" by " High School" otherwise, and else returns the trimmed
\* input.
C17_SchoolNormalization ==
    (ext.pc = "returned") => ext.result = CanonicalSchool(ext.school)


(***************************************************************************)
(* The athlete each extractor builds from the name and school it read.     *)
(***************************************************************************)
IsLetter(c) == c \in DOMAIN LowerOf \/ c \in DOMAIN UpperOf

\* str.title(): a letter after a letter is lower-cased, any other letter is
\* upper-cased
title(s) ==
    [i \in 1..Len(s) |->
        IF i > 1 /\ IsLetter(s[i - 1]) THEN lower_char(s[i]) ELSE upper_char(s[i])]

sc_rocky_mountain_high == sc_rocky_mountain \o <<" ", "H", "i", "g", "h">>
sc_unknown_school ==
    <<"U", "n", "k", "n", "o", "w", "n", " ", "S", "c", "h", "o", "o", "l">>

\* fix_thornton_school_name: school_mappings.get(school_name, school_name),
\* with the entries of the table for the three local schools
fix_thornton_school_name(school_name) ==
    IF school_name \in {sc_fort_collins, sc_fort_collins \o sc_high_sc}
    THEN sc_fort_collins \o sc_high_school
    ELSE IF school_name = sc_fossil_ridge \o sc_high_sc
    THEN sc_fossil_ridge \o sc_high_school
    ELSE IF school_name = sc_rocky_mountain_high
    THEN sc_rocky_mountain \o sc_high_school
    ELSE school_name

\* str.replace(old, new): every occurrence of old, taken from the left and
\* without overlap, is replaced by new
RECURSIVE replace_from(_, _, _, _)
replace_from(s, old, new, i) ==
    IF i > Len(s) THEN <<>>
    ELSE IF startswith(SubSeq(s, i, Len(s)), old)
         THEN new \o replace_from(s, old, new, i + Len(old))
         ELSE <<s[i]>> \o replace_from(s, old, new, i + 1)

replace(s, old, new) == replace_from(s, old, new, 1)

sc_high_sc_text == <<"H", "i", "g", "h", " ", "S", "c">>
sc_high_school_text == <<"H", "i", "g", "h", " ", "S", "c", "h", "o", "o", "l">>

\* "Clean up school name" of raw_combined and loveland_sweetheart:
\* school.replace('High Sc', 'High School'), then
\* school.replace(' HS', ' High School')
school_cleanup(school) ==
    replace(replace(school, sc_high_sc_text, sc_high_school_text), sc_hs, sc_high_school)

\* the extractors that clean the school up before normalize_school_name
SchoolCleaning == {"raw_combined", "loveland_sweetheart"}

\* the extractors that pass first and last name through normalize_name
NameNormalizing ==
    {"john_martin", "thornton_combined", "raw_combined", "northern_conference",
     "longs_peak", "loveland_sweetheart"}

\* first and last name of the Athlete an extractor builds
extracted_names(algorithm, path, first, last) ==
    IF algorithm \in NameNormalizing \/ (algorithm = "default" /\ path = "table")
    THEN <<normalize_name(first), normalize_name(last)>>
    ELSE IF algorithm = "raw_windsor_combined" THEN <<first, title(last)>>
    ELSE <<first, last>>

\* school of the Athlete an extractor builds
extracted_school(algorithm, path, school) ==
    IF algorithm \in {"raw_windsor_combined", "desert_twilight"}
    THEN fix_thornton_school_name(school)
    ELSE IF algorithm = "thornton_combined"
    THEN normalize_school_name(fix_thornton_school_name(school))
    ELSE IF algorithm = "default" /\ path = "table" THEN sc_unknown_school
    ELSE IF algorithm \in SchoolCleaning
    THEN normalize_school_name(school_cleanup(school))
    ELSE normalize_school_name(school)

name_oliver == <<"O", "l", "i", "v", "e", "r">>
name_horton == <<"H", "O", "R", "T", "O", "N">>

\* names and schools as results pages write them; the windsor row pattern
\* takes a last name in capitals only
PageFirstNames == {name_oliver, lower(name_oliver)}
PageLastNames(algorithm) ==
    IF algorithm = "raw_windsor_combined" THEN {name_horton, n_doe_v}
    ELSE {name_horton, title(name_horton)}
PageSchools ==
    {sc_fort_collins, sc_fort_collins \o sc_high_sc, sc_poudre \o sc_hs,
     sc_poudre \o sc_high_school, sc_rocky_mountain_high}

AthleteInit ==
    /\ \E algorithm \in Algorithms, first \in PageFirstNames, school \in PageSchools :
       \E last \in PageLastNames(algorithm) :
       \E path \in (IF algorithm = "default" THEN DefaultPaths ELSE {"format"}) :
          ext = [op |-> "athlete", pc |-> "call", algorithm |-> algorithm, path |-> path,
                 first |-> first, last |-> last, school |-> school,
                 first_name |-> <<>>, last_name |-> <<>>, school_name |-> <<>>]
    /\ ExtIdle

\* the extractor builds the Athlete of a row; main hands the record to
\* store_race_results as it is
ExtractAthlete ==
    /\ ext.pc = "call"
    /\ \E names \in {extracted_names(ext.algorithm, ext.path, ext.first, ext.last)} :
          ext' = [ext EXCEPT
                     !.pc = "returned",
                     !.first_name = names[1],
                     !.last_name = names[2],
                     !.school_name = extracted_school(ext.algorithm, ext.path, ext.school)]
    /\ ExtFrame

AthleteNext == ExtractAthlete

SpecAthlete == AthleteInit /\ [][AthleteNext]_vars

\* C18: whatever the algorithm, the record handed to store_race_results has
\* first and last names that normalize_name leaves unchanged and a school
\* that normalize_school_name leaves unchanged.
C18_NormalizedBeforeStorage ==
    (ext.pc = "returned") =>
        /\ normalize_name(ext.first_name) = ext.first_name
        /\ normalize_name(ext.last_name) = ext.last_name
        /\ normalize_school_name(ext.school_name) = ext.school_name


(***************************************************************************)
(* The dispatch of scrape_race_results: which extractor an algorithm       *)
(* identifier invokes.                                                     *)
(***************************************************************************)
\* the if/elif chain of scrape_race_results: the method called for an
\* identifier, "default_chain" being the code after the chain
extractor_of(algorithm) ==
    IF algorithm = "john_martin" THEN "scrape_john_martin_format"
    ELSE IF algorithm = "thornton_combined" THEN "scrape_thornton_combined_format"
    ELSE IF algorithm = "raw_combined" THEN "scrape_raw_combined_format"
    ELSE IF algorithm = "raw_windsor_combined" THEN "scrape_raw_windsor_combined_format"
    ELSE IF algorithm = "desert_twilight" THEN "scrape_desert_twilight_format"
    ELSE IF algorithm = "loveland_sweetheart" THEN "scrape_loveland_sweetheart_format"
    ELSE IF algorithm = "longs_peak" THEN "scrape_longs_peak_format"
    ELSE IF algorithm = "northern_conference" THEN "scrape_northern_conference_format"
    ELSE "default_chain"

\* an identifier that is not set (None)
Unset == ""

\* identifiers outside the closed set: another letter case, a shortened name
UnknownIdentifiers == {"John_Martin", "thornton"}

Identifiers == Algorithms \cup {Unset} \cup UnknownIdentifiers

DispatchDocs ==
    {Doc(FALSE, FALSE, <<>>), Doc(TRUE, FALSE, <<row_ok>>)}
    \cup {Doc(TRUE, TRUE, rows) : rows \in SectionRows}

DispatchInit ==
    /\ \E algorithm \in Identifiers, is_file \in BOOLEAN, doc \in DispatchDocs :
          ext = [op |-> "scrape_race_results", pc |-> "call", algorithm |-> algorithm,
                 is_file |-> is_file, doc |-> doc, invoked |-> <<>>,
                 kind |-> "", results |-> <<>>]
    /\ ExtIdle

\* one call of scrape_race_results; ext.invoked lists the extractors it ran
Dispatch ==
    /\ ext.pc = "call"
    /\ \E r \in {scrape_race_results(ext.is_file, ext.algorithm,
                     MainConfig(1, the_file, "", "default", TRUE), ext.doc)} :
          ext' = [ext EXCEPT !.pc = "returned",
                             !.invoked = <<extractor_of(ext.algorithm)>>,
                             !.kind = r.kind,
                             !.results = r.results]
    /\ ExtFrame

DispatchNext == Dispatch

SpecDispatch == DispatchInit /\ [][DispatchNext]_vars

\* C21: a call of scrape_race_results runs exactly one extractor; a named
\* identifier runs its own extractor, and the fallback chain runs only for
\* an identifier that is unset or 'default'.
C21_DispatchByIdentifier ==
    (ext.pc = "returned") =>
        /\ Len(ext.invoked) = 1
        /\ ext.algorithm \in Algorithms \ {"default"} =>
              ext.invoked[1] = "scrape_" \o ext.algorithm \o "_format"
        /\ ext.invoked[1] = "default_chain" => ext.algorithm \in {Unset, "default"}


(***************************************************************************)
(* A run of main from its start: the checks before the loop, the optional  *)
(* clear_database, then the loop over the descriptors.                     *)
(***************************************************************************)
\* mutant of wipe_requested: the store is cleared on every run
wipe_always(args) == TRUE

\* `if args.clear_db`
wipe_requested(args) == args.clear_db

\* clear_database: DELETE FROM the five tables in one transaction; the
\* serial counters are not reset
clear_database(d) ==
    [d EXCEPT !.results = {}, !.races = {}, !.meets = {}, !.venues = {}, !.athletes = {}]

\* every row of d is still in e
Keeps(d, e) ==
    /\ d.venues \subseteq e.venues
    /\ d.meets \subseteq e.meets
    /\ d.races \subseteq e.races
    /\ d.athletes \subseteq e.athletes
    /\ d.results \subseteq e.results

\* the descriptors of a run: no source, a failed fetch, a file with two
\* results, a url with one, a file with a time above the ceiling
RunInputs ==
    {Input("", "", "default", Doc(FALSE, FALSE, <<>>)),
     Input("", the_url, "raw_combined", Doc(FALSE, FALSE, <<>>)),
     Input(the_file, "", "john_martin", Doc(TRUE, TRUE, <<row_ok, row_next>>)),
     Input("", the_url, "default", Doc(TRUE, TRUE, <<row_ok>>)),
     Input(the_file, "", "longs_peak", Doc(TRUE, TRUE, <<row_ok, row_over>>))}

RunStart ==
    /\ db \in PriorStores
    /\ \E clear_db \in BOOLEAN, database_url \in BOOLEAN, config_found \in BOOLEAN,
          clear_fails \in BOOLEAN, n \in 0..MaxRaces :
          batch = [pc |-> "start",
                   args |-> [clear_db |-> clear_db],
                   database_url |-> database_url, config_found |-> config_found,
                   clear_fails |-> clear_fails,
                   n |-> n, k |-> 1, status |-> 0,
                   cleared |-> 0, extracted_before_clear |-> 0, extracted |-> 0,
                   removed |-> FALSE, at_start |-> db]
    /\ runs = <<>>
    /\ hist = NoHist
    /\ time_src = TimeSrc("JUNK", NoField, 0, 0, NoField, <<>>, <<>>)
    /\ time_str = <<>>
    /\ parsed = Pending
    /\ ext = <<>>

RunFrame == UNCHANGED <<time_src, time_str, parsed, hist, runs, ext>>

\* main up to the loop: DATABASE_URL, the configuration file and its
\* descriptors are checked, each failure ending the process with status 1;
\* then clear_database if it was asked for, whose exception ends the process
StartUp ==
    /\ batch.pc = "start"
    /\ IF ~batch.database_url \/ ~batch.config_found \/ batch.n = 0
       THEN /\ batch' = [batch EXCEPT !.pc = "exited", !.status = 1]
            /\ db' = db
       ELSE IF wipe_requested(batch.args)
       THEN IF batch.clear_fails
            THEN /\ batch' = [batch EXCEPT !.pc = "exited", !.status = 1, !.cleared = @ + 1,
                                          !.extracted_before_clear = batch.extracted]
                 /\ db' = db
            ELSE /\ batch' = [batch EXCEPT !.pc = "loop", !.cleared = @ + 1,
                                          !.extracted_before_clear = batch.extracted]
                 /\ db' = clear_database(db)
       ELSE /\ batch' = [batch EXCEPT !.pc = "loop"]
            /\ db' = db
    /\ RunFrame

\* one turn of the loop of main
RunRace ==
    /\ batch.pc = "loop"
    /\ batch.k <= batch.n
    /\ \E in \in RunInputs :
       \E rc \in {MainConfig(batch.k, in.file, in.url, in.algorithm, in.keyed)} :
       \E it \in {main_iteration(db, rc, in.doc)} :
          /\ db' = it.db
          /\ batch' = [batch EXCEPT
                          !.k = IF it.outcome = "exit" THEN @ ELSE @ + 1,
                          !.pc = IF it.outcome = "exit" THEN "exited" ELSE @,
                          !.status = it.status,
                          !.extracted = IF it.outcome = "no_source" THEN @ ELSE @ + 1,
                          !.removed = @ \/ ~Keeps(db, it.db)]
    /\ RunFrame

\* "Scraping completed"
RunCompleted ==
    /\ batch.pc = "loop"
    /\ batch.k > batch.n
    /\ batch' = [batch EXCEPT !.pc = "done"]
    /\ db' = db
    /\ RunFrame

RunNext == StartUp \/ RunRace \/ RunCompleted

SpecRun == RunStart /\ [][RunNext]_vars

\* the run got past its checks of DATABASE_URL and of the configuration
PastStartUp == batch.pc \in {"loop", "done"} \/ batch.cleared > 0 \/ batch.extracted > 0

RECURSIVE first_digits(_, _, _)
\* re.search(r'(\d+)', text).group(1): the first run of digits, <<>> if none
first_digits(text, i, acc) ==
    IF i > Len(text) THEN acc
    ELSE IF IsDigit(text[i]) THEN first_digits(text, i + 1, Append(acc, text[i]))
    ELSE IF acc # <<>> THEN acc
    ELSE first_digits(text, i + 1, acc)

\* parse_table_row: `int(place_match.group(1)) if place_match else 0`
table_place(place_text) ==
    IF first_digits(place_text, 1, <<>>) = <<>> THEN 0
    ELSE int(first_digits(place_text, 1, <<>>))

\* what a row with this place field gives: "place" with its number, "skip"
\* when the line does not match the row pattern, "exit" in john_martin
read_place(algorithm, path, place_text) ==
    IF algorithm = "default" /\ path = "table"
    THEN [kind |-> "place", place |-> table_place(place_text)]
    ELSE IF is_int(place_text) THEN [kind |-> "place", place |-> int(place_text)]
    ELSE IF algorithm = "john_martin" THEN [kind |-> "exit", place |-> 0]
    ELSE [kind |-> "skip", place |-> 0]

RECURSIVE read_places(_, _, _, _, _)
\* the places of the records an extractor returns for the rows, in order;
\* <<>> with exited when john_martin ended the process
read_places(algorithm, path, cells, i, acc) ==
    IF i > Len(cells) THEN [kind |-> "return", places |-> acc]
    ELSE With(read_place(algorithm, path, cells[i]),
              LAMBDA r :
                IF r.kind = "exit" THEN [kind |-> "exit", places |-> <<>>]
                ELSE read_places(algorithm, path, cells, i + 1,
                         IF r.kind = "place" THEN Append(acc, r.place) ELSE acc))

\* place fields as results pages write them: a number, a zero, the
\* placeholder of a non-finisher, a tie mark
PlaceCells == {<<"1">>, <<"2">>, <<"0">>, <<"-", "-">>, <<"T", "2">>}

PlaceCellLists == UNION {[1..n -> PlaceCells] : n \in 0..MaxRows}

PlacesInit ==
    /\ \E algorithm \in Algorithms, cells \in PlaceCellLists :
       \E path \in (IF algorithm = "default" THEN DefaultPaths ELSE {"format"}) :
          ext = [op |-> "places", pc |-> "call", algorithm |-> algorithm, path |-> path,
                 cells |-> cells, kind |-> "", places |-> <<>>]
    /\ ExtIdle

\* one extractor invocation on rows with good times and the given place fields
ExtractPlaces ==
    /\ ext.pc = "call"
    /\ \E r \in {read_places(ext.algorithm, ext.path, ext.cells, 1, <<>>)} :
          ext' = [ext EXCEPT !.pc = "returned", !.kind = r.kind, !.places = r.places]
    /\ ExtFrame

PlacesNext == ExtractPlaces

SpecPlaces == PlacesInit /\ [][PlacesNext]_vars

\* C23: in the list an extractor invocation returns every place is at least
\* 1 and no two records have the same place.
C23_PlaceWellFormed ==
    (ext.pc = "returned" /\ ext.kind = "return") =>
        /\ \A j \in 1..Len(ext.places) : ext.places[j] >= 1
        /\ \A j, k \in 1..Len(ext.places) : ext.places[j] = ext.places[k] => j = k


(***************************************************************************)
(* The row loops of scrape_longs_peak_format and                           *)
(* scrape_loveland_sweetheart_format, on the lines after the section       *)
(* start.  A line is given by what the loop's tests find in it and, for a  *)
(* line the result pattern matches, the text of its place field.           *)
(***************************************************************************)
placeholder == <<"-", "-">>

Line(t, place_str) == [t |-> t, place_str |-> place_str]

\* longs_peak: a finisher, a non-finisher the pattern matches ("-- 12 ..."),
\* a non-finisher written "-- -- ...", a line the pattern does not match,
\* the footer ('Number of records:')
LongsPeakLines ==
    {Line("row", <<"1">>), Line("row", placeholder), Line("dns", placeholder),
     Line("other", <<>>), Line("footer", <<>>)}

\* loveland_sweetheart: the 'Pl Athlete Yr Team' header, the 'Rank Team
\* Score Avg' header, a finisher, a non-finisher the pattern matches, a line
\* it does not match, the title of another race
LovelandLines ==
    {Line("individual_header", <<>>), Line("team_header", <<>>),
     Line("row", <<"1">>), Line("row", placeholder), Line("other", <<>>),
     Line("next_race", <<>>)}

\* mutant of non_finisher: the loop ends at a non-finisher
non_finisher_stops(acc) == [stop |-> TRUE, results |-> acc]

\* `if place_str == '--': i += 1; continue`
non_finisher(acc) == [stop |-> FALSE, results |-> acc]

\* a line the result pattern matched: skipped for the placeholder, else the
\* record of the line is appended
matched_row(line, i, acc) ==
    IF line.place_str = placeholder THEN non_finisher(acc)
    ELSE [stop |-> FALSE, results |-> Append(acc, i)]

RECURSIVE longs_peak_rows(_, _, _)
\* the while loop of scrape_longs_peak_format; acc is the lines that gave a
\* record
longs_peak_rows(lines, i, acc) ==
    IF i > Len(lines) THEN acc
    ELSE IF lines[i].t = "footer" THEN acc
    ELSE IF lines[i].t = "dns" THEN longs_peak_rows(lines, i + 1, acc)
    ELSE IF lines[i].t = "row"
         THEN With(matched_row(lines[i], i, acc),
                   LAMBDA r : IF r.stop THEN r.results
                              ELSE longs_peak_rows(lines, i + 1, r.results))
    ELSE longs_peak_rows(lines, i + 1, acc)

RECURSIVE loveland_rows(_, _, _, _, _)
\* the while loop of scrape_loveland_sweetheart_format
loveland_rows(lines, i, in_team_results, in_individual_results, acc) ==
    IF i > Len(lines) THEN acc
    ELSE IF lines[i].t = "team_header"
         THEN loveland_rows(lines, i + 1, TRUE, FALSE, acc)
    ELSE IF lines[i].t = "individual_header"
         THEN loveland_rows(lines, i + 1, FALSE, TRUE, acc)
    ELSE IF lines[i].t = "next_race" THEN acc
    ELSE IF in_team_results
         THEN loveland_rows(lines, i + 1, in_team_results, in_individual_results, acc)
    ELSE IF in_individual_results /\ lines[i].t = "row"
         THEN With(matched_row(lines[i], i, acc),
                   LAMBDA r : IF r.stop THEN r.results
                              ELSE loveland_rows(lines, i + 1, in_team_results,
                                       in_individual_results, r.results))
    ELSE loveland_rows(lines, i + 1, in_team_results, in_individual_results, acc)

section_results(algorithm, lines) ==
    IF algorithm = "longs_peak" THEN longs_peak_rows(lines, 1, <<>>)
    ELSE loveland_rows(lines, 1, FALSE, FALSE, <<>>)

FinisherInit ==
    /\ \E algorithm \in {"longs_peak", "loveland_sweetheart"} :
       \E lines \in UNION {[1..n -> IF algorithm = "longs_peak" THEN LongsPeakLines
                                    ELSE LovelandLines] : n \in 0..MaxLines} :
          ext = [op |-> "section", pc |-> "call", algorithm |-> algorithm,
                 lines |-> lines, results |-> <<>>]
    /\ ExtIdle

ExtractSection ==
    /\ ext.pc = "call"
    /\ ext' = [ext EXCEPT !.pc = "returned",
                          !.results = section_results(ext.algorithm, ext.lines)]
    /\ ExtFrame

FinisherNext == ExtractSection

SpecFinishers == FinisherInit /\ [][FinisherNext]_vars

\* line i is a non-finisher: its place field is the placeholder
IsNonFinisher(i) == ext.lines[i].t \in {"row", "dns"} /\ ext.lines[i].place_str = placeholder

IsFinisher(i) == ext.lines[i].t = "row" /\ ext.lines[i].place_str # placeholder

\* line i is read as a result line of the section: before the footer or the
\* next race, and for loveland_sweetheart under the individual header
InResults(i) ==
    IF ext.algorithm = "longs_peak"
    THEN \A j \in 1..i : ext.lines[j].t # "footer"
    ELSE /\ \A j \in 1..i : ext.lines[j].t # "next_race"
         /\ \E h \in 1..(i - 1) :
               /\ ext.lines[h].t = "individual_header"
               /\ \A j \in (h + 1)..i : ext.lines[j].t # "team_header"

Results == {ext.results[j] : j \in 1..Len(ext.results)}

\* C24: in longs_peak and loveland_sweetheart a line whose place field is
\* "--" gives no record and does not end the extraction: every finisher line
\* of the section, those after a "--" line included, gives its record.
C24_NonFinishersSkipped ==
    (ext.pc = "returned") =>
        /\ \A i \in Results : ~IsNonFinisher(i)
        /\ \A i \in 1..Len(ext.lines) :
              (IsFinisher(i) /\ InResults(i)) => i \in Results

\* a section with a finisher, a "--" line and a finisher after it
C24_Witness ==
    /\ ext.pc = "returned"
    /\ ext.algorithm = "loveland_sweetheart"
    /\ Len(ext.lines) = 4
    /\ ext.lines[1].t = "individual_header"
    /\ IsFinisher(2) /\ IsNonFinisher(3) /\ IsFinisher(4)
    /\ ext.results = <<2, 4>>


(***************************************************************************)
(* The gender of the Athlete each extractor builds.                        *)
(***************************************************************************)
\* str.upper()
upper(s) == [i \in 1..Len(s) |-> upper_char(s[i])]

\* the descriptor genders: boys, girls, male, female, in lower case, with a
\* capital and in capitals
DescriptorGenders ==
    UNION {{g, capitalize(g), upper(g)} : g \in {g_boys, g_girls, g_male, g_female}}

\* thornton_combined returns [] unless the lower-cased gender is boys or girls
produces_athletes(algorithm, gender) ==
    algorithm = "thornton_combined" => lower(gender) \in {g_boys, g_girls}

\* gender of the Athlete an extractor builds; page_gender is what the pre
\* and text branches of the default chain read on the page
extracted_gender(algorithm, path, gender, page_gender) ==
    IF algorithm \in {"raw_windsor_combined", "desert_twilight"}
    THEN (IF gender = g_boys THEN g_male ELSE g_female)
    ELSE IF algorithm = "default"
    THEN (IF path = "table" THEN g_male ELSE page_gender)
    ELSE map_gender_for_db(gender)

GenderInit ==
    /\ \E algorithm \in Algorithms, gender \in DescriptorGenders,
          page_gender \in {g_male, g_female} :
       \E path \in (IF algorithm = "default" THEN DefaultPaths ELSE {"format"}) :
          ext = [op |-> "gender", pc |-> "call", algorithm |-> algorithm, path |-> path,
                 gender |-> gender, page_gender |-> page_gender,
                 produced |-> FALSE, athlete_gender |-> <<>>, race_gender |-> <<>>]
    /\ ExtIdle

\* the extractor builds the Athlete of a row, and store_race_results stores
\* the race under the mapped gender of the descriptor
ExtractGender ==
    /\ ext.pc = "call"
    /\ ext' = [ext EXCEPT
                  !.pc = "returned",
                  !.produced = produces_athletes(ext.algorithm, ext.gender),
                  !.athlete_gender =
                      IF produces_athletes(ext.algorithm, ext.gender)
                      THEN extracted_gender(ext.algorithm, ext.path, ext.gender,
                                            ext.page_gender)
                      ELSE <<>>,
                  !.race_gender = map_gender_for_db(ext.gender)]
    /\ ExtFrame

GenderNext == ExtractGender

SpecGender == GenderInit /\ [][GenderNext]_vars

\* C25: a record of the table path of the default chain carries the
\* descriptor's gender, mapped to male or female.
C25_TableGenderFromCaller ==
    (ext.pc = "returned" /\ ext.algorithm = "default" /\ ext.path = "table") =>
        ext.athlete_gender = map_gender_for_db(ext.gender)

\* C30: for each of the eight named extractors and each descriptor gender
\* (boys, girls, male, female, in any letter case) the gender of a produced
\* athlete is map_gender_for_db of the descriptor gender, the gender the
\* race is stored under.
C30_GenderConsistency ==
    (/\ ext.pc = "returned"
     /\ ext.algorithm \in Algorithms \ {"default"}
     /\ ext.produced) =>
        /\ ext.athlete_gender = map_gender_for_db(ext.gender)
        /\ ext.athlete_gender = ext.race_gender


(***************************************************************************)
(* store_race_results ended by an exception.  Meet, race and results are   *)
(* written on the connection of store_race_results and are rolled back;    *)
(* get_or_create_venue and get_or_create_athlete use a connection of their *)
(* own and commit before they return.                                      *)
(***************************************************************************)
\* the store after the connection of store_race_results is closed without a
\* commit: partial is the store with every write made up to the exception
rolled_back(d, partial) ==
    [partial EXCEPT !.meets = d.meets, !.races = d.races, !.results = d.results]

\* store_race_results raising after k records were handled (k = 0: while the
\* meet or the race is resolved)
store_race_results_raises(d, race_config, results, k) ==
    With(get_or_create_venue(d, race_config.venue),
         LAMBDA v :
           With(get_or_create_meet(v.db, v.id, race_config),
                LAMBDA m :
                  With(find_race(m.db, m.id, race_config),
                       LAMBDA races :
                         IF k = 0 THEN rolled_back(d, m.db)
                         ELSE IF races # {}
                         THEN rolled_back(d,
                                  collect_new_results(m.db, SubSeq(results, 1, k), 1,
                                      FetchOne(races).id,
                                      existing_set_of(m.db, FetchOne(races).id),
                                      <<>>).db)
                         ELSE rolled_back(d,
                                  store_new_race(m.db, m.id, race_config,
                                      SubSeq(results, 1, k)).db))))

NoFailure == [op |-> "store_race_results", failed |-> FALSE, k |-> 0,
              before |-> EmptyDb, after |-> EmptyDb]

StoreFailInit ==
    /\ db = EmptyDb
    /\ hist = NoHist
    /\ ext = NoFailure
    /\ time_src = TimeSrc("JUNK", NoField, 0, 0, NoField, <<>>, <<>>)
    /\ time_str = <<>>
    /\ parsed = Pending
    /\ runs = <<>>
    /\ batch = <<>>

\* one call of store_race_results that raises; ext keeps the store before
\* and after the last such call
StoreRaceResultsRaises(race_config, results, k) ==
    /\ hist.n < MaxCalls
    /\ results # <<>>
    /\ k \in 0..Len(results)
    /\ \E after \in {store_race_results_raises(db, race_config, results, k)} :
          /\ db' = after
          /\ ext' = [op |-> "store_race_results", failed |-> TRUE, k |-> k,
                     before |-> db, after |-> after]
    /\ hist' = [hist EXCEPT !.n = @ + 1]
    /\ UNCHANGED <<time_src, time_str, parsed, runs, batch>>

StoreFailNext ==
    \E rc \in StoreConfigs, results \in RecordLists :
        \/ StoreRaceResults(rc, results)
        \/ \E k \in 0..MaxRecs : StoreRaceResultsRaises(rc, results, k)

SpecStoreFail == StoreFailInit /\ [][StoreFailNext]_vars

\* C27: a store_race_results call that fails partway leaves no venue, meet,
\* race, athlete or result row of its own: the tables are as before the call.
C27_AllOrNothing ==
    ext.failed =>
        /\ ext.after.venues = ext.before.venues
        /\ ext.after.meets = ext.before.meets
        /\ ext.after.races = ext.before.races
        /\ ext.after.athletes = ext.before.athletes
        /\ ext.after.results = ext.before.results


(***************************************************************************)
(* The school of a row in raw_combined and loveland_sweetheart: cleaned up *)
(* and normalised, and the same once more on the school so obtained (the   *)
(* stored name met again on a later page).                                 *)
(***************************************************************************)
CleanupSchools == {base \o suffix : base \in SchoolBases, suffix \in SchoolSuffixes}

CleanupInit ==
    /\ \E algorithm \in SchoolCleaning, school \in CleanupSchools :
          ext = [op |-> "school", pc |-> "call", algorithm |-> algorithm,
                 school |-> school, cleaned |-> <<>>, again |-> <<>>]
    /\ ExtIdle

\* the extractor builds the school of a row
CleanSchool ==
    /\ ext.pc = "call"
    /\ ext' = [ext EXCEPT !.pc = "cleaned",
                          !.cleaned = extracted_school(ext.algorithm, "format", ext.school)]
    /\ ExtFrame

\* the extractor builds the school of a row that carries the cleaned name
CleanSchoolAgain ==
    /\ ext.pc = "cleaned"
    /\ ext' = [ext EXCEPT !.pc = "again",
                          !.again = extracted_school(ext.algorithm, "format", ext.cleaned)]
    /\ ExtFrame

CleanupNext == CleanSchool \/ CleanSchoolAgain

SpecCleanup == CleanupInit /\ [][CleanupNext]_vars

\* C29: in raw_combined and loveland_sweetheart a school that already ends
\* in "High School" comes out unchanged, and the cleanup is idempotent: the
\* cleaned name, cleaned once more, is the cleaned name.
C29_CleanupSafeOnCompleteNames ==
    /\ (ext.pc # "call" /\ endswith(ext.school, sc_high_school)) => ext.cleaned = ext.school
    /\ ext.pc = "again" => ext.again = ext.cleaned

====
